---- MODULE Spec2Model ----
(***************************************************************************)
(* Model of the tax-automation document pipeline:                          *)
(*   - the recursive normalizer processFile and the analyze POST handler   *)
(*     (src/src/app/api/analyze/route.ts),                                 *)
(*   - the workbook builder generateExcelSummary and the packager          *)
(*     generateAuditPackage (src/next.config.ts, src/src/utils/            *)
(*     export-client.ts).                                                  *)
(* Strings are sequences of one-character strings, so that endsWith,       *)
(* toLowerCase, split, replace and startsWith are computed as the code     *)
(* computes them.                                                          *)
(***************************************************************************)
EXTENDS Integers, Sequences, FiniteSets, TLC

VARIABLES
    blobs,          \* POST: the request body's blobs array
    pc,             \* POST: position of the handler
    bi,             \* POST: index of the next blob of the for-loop
    manifest,       \* POST: manifest (string[])
    visited,        \* ghost: tree address of the node behind each manifest entry
    geminiParts,    \* POST: parts sent to the model
    blobsToDelete,  \* POST: blobsToDelete (string[])
    deleted,        \* blob URLs handed to del(), in call order
    responseText,   \* POST: the model's reply
    response,       \* POST: the HTTP response returned
    originalFiles,  \* generateAuditPackage: originalFiles (File[])
    result,         \* generateAuditPackage: result (AnalysisResult)
    fi,             \* generateAuditPackage: index of the next original file
    zip,            \* generateAuditPackage: the archive's entries
    workbook,       \* generateAuditPackage: the sheets appended to the workbook
    xpc,            \* generateAuditPackage: position of the call
    rewriteInput,   \* hyperlink rewrite: the source file value of a row
    rewritten,      \* hyperlink rewrite: the results of rewriting it, in turn
    errMsg,         \* analyzeRentalDocuments: errMsg of the error last caught
    attempt,        \* analyzeRentalDocuments: attempt
    calls,          \* analyzeRentalDocuments: calls of generateContent so far
    delays,         \* analyzeRentalDocuments: the delays waited, in order
    rpc,            \* analyzeRentalDocuments: position of the call
    outcome,        \* analyzeRentalDocuments: the text returned or error thrown
    shownFiles,     \* FileUpload: the files state of the component
    parentFiles,    \* FileUpload: the list last passed to onFilesSelected
    drops,          \* FileUpload: the handleDrop calls awaiting their traversal
    picked          \* FileUpload: the number of files dropped or chosen so far

analyzeVars == <<blobs, pc, bi, manifest, visited, geminiParts, blobsToDelete,
                 deleted, responseText, response>>

exportVars == <<originalFiles, result, fi, zip, workbook, xpc>>

rewriteVars == <<rewriteInput, rewritten>>

retryVars == <<errMsg, attempt, calls, delays, rpc, outcome>>

uploadVars == <<shownFiles, parentFiles, drops, picked>>

vars == <<analyzeVars, exportVars, rewriteVars, retryVars, uploadVars>>

\* no export call is under way
ExportIdle ==
    /\ originalFiles = <<>>
    /\ result = [properties |-> <<>>, tax_year |-> 0, all_files_detected |-> <<>>]
    /\ fi = 1
    /\ zip = <<>>
    /\ workbook = <<>>
    /\ xpc = "idle"

\* no hyperlink is being rewritten
RewriteIdle ==
    /\ rewriteInput = <<>>
    /\ rewritten = <<>>

\* no call of analyzeRentalDocuments is under way
RetryIdle ==
    /\ errMsg = <<>>
    /\ attempt = 0
    /\ calls = 0
    /\ delays = <<>>
    /\ rpc = "idle"
    /\ outcome = <<>>

\* no FileUpload component is mounted
UploadIdle ==
    /\ shownFiles = <<>>
    /\ parentFiles = <<>>
    /\ drops = {}
    /\ picked = 0

----------------------------------------------------------------------------
(* String helpers: JavaScript string methods on character sequences.       *)

UpperLetters == <<"A","B","C","D","E","F","G","H","I","J","K","L","M",
                  "N","O","P","Q","R","S","T","U","V","W","X","Y","Z">>
LowerLetters == <<"a","b","c","d","e","f","g","h","i","j","k","l","m",
                  "n","o","p","q","r","s","t","u","v","w","x","y","z">>

LowerChar(c) ==
    IF \E i \in 1..Len(UpperLetters) : UpperLetters[i] = c
    THEN LowerLetters[CHOOSE i \in 1..Len(UpperLetters) : UpperLetters[i] = c]
    ELSE c

toLowerCase(s) == [i \in 1..Len(s) |-> LowerChar(s[i])]

startsWith(s, p) ==
    /\ Len(p) <= Len(s)
    /\ SubSeq(s, 1, Len(p)) = p

endsWith(s, p) ==
    /\ Len(p) <= Len(s)
    /\ SubSeq(s, Len(s) - Len(p) + 1, Len(s)) = p

\* index (1-based) of the last "." of s, 0 when there is none
LastDot(s) ==
    IF \E i \in 1..Len(s) : s[i] = "."
    THEN CHOOSE i \in 1..Len(s) : s[i] = "." /\ \A j \in (i+1)..Len(s) : s[j] # "."
    ELSE 0

\* filename.split(".").pop()
SplitPop(s) == SubSeq(s, LastDot(s) + 1, Len(s))

\* s.replace(/pat/g, rep) for a literal pattern, scanning left to right
RECURSIVE ReplaceAll(_, _, _)
ReplaceAll(s, pat, rep) ==
    IF Len(s) = 0 THEN <<>>
    ELSE IF startsWith(s, pat)
         THEN rep \o ReplaceAll(SubSeq(s, Len(pat) + 1, Len(s)), pat, rep)
         ELSE <<s[1]>> \o ReplaceAll(SubSeq(s, 2, Len(s)), pat, rep)

SEP == <<" ", ">", " ">>

----------------------------------------------------------------------------
(* Format sniffing.                                                        *)

getMimeType(filename) ==
    LET ext == toLowerCase(SplitPop(filename)) IN
    CASE ext = <<"p","d","f">>      -> "application/pdf"
      [] ext = <<"p","n","g">>      -> "image/png"
      [] ext = <<"j","p","g">>      -> "image/jpeg"
      [] ext = <<"j","p","e","g">>  -> "image/jpeg"
      [] ext = <<"d","o","c","x">>  -> "application/vnd.openxmlformats-officedocument.wordprocessingml.document"
      [] ext = <<"m","s","g">>      -> "application/vnd.ms-outlook"
      [] ext = <<"x","l","s","x">>  -> "application/vnd.openxmlformats-officedocument.spreadsheetml.sheet"
      [] ext = <<"x","l","s">>      -> "application/vnd.openxmlformats-officedocument.spreadsheetml.sheet"
      [] ext = <<"c","s","v">>      -> "text/csv"
      [] OTHER                      -> "application/octet-stream"

shouldSkipFile(filename) ==
    \/ startsWith(filename, <<".">>)
    \/ startsWith(filename, <<"~","$">>)
    \/ endsWith(toLowerCase(filename), <<".","t","m","p">>)
    \/ endsWith(toLowerCase(filename), <<".","d","s","_","s","t","o","r","e">>)
    \/ endsWith(toLowerCase(filename), <<"t","h","u","m","b","s",".","d","b">>)

MAX_FILE_SIZE == 10 * 1024 * 1024


----------------------------------------------------------------------------
(* The recursive normalizer.                                               *)
(*                                                                         *)
(* A file is a record                                                      *)
(*   name    : its file name (for an attachment: attachmentData.fileName)  *)
(*   named   : FALSE when an attachment carries no fileName                *)
(*   content : FALSE when getAttachment returns no content                 *)
(*   throws  : TRUE when getAttachment throws for this attachment          *)
(*   size    : fileBuffer.length                                           *)
(*   bad     : TRUE when the bytes make the parser or extractor throw      *)
(*             (MsgReader / getFileData, mammoth, XLSX.read)               *)
(*   atts    : fileData.attachments of the bytes read as a .msg container  *)
(* A part is [mimeType, kind, path]: kind names the text block emitted     *)
(* ("EMAIL", "DOCUMENT", "SPREADSHEET", "BINARY FILE") or "BYTES" for the  *)
(* file's own bytes; path is the normalizedName the part was built from.   *)
(* acc carries the manifest array and, next to it, the tree address of the *)
(* file behind each entry (addr is the address of the file processed).     *)

TextPart(kind, path) == [mimeType |-> "text/plain", kind |-> kind, path |-> path]

attachFilenameOf(attach) ==
    IF attach.named /\ attach.name # <<>>
    THEN attach.name
    ELSE <<"a","t","t","a","c","h","m","e","n","t">>

\* variant: the breadcrumb separator is left out
attachPath_noSeparator(normalizedName, attachFilename) == normalizedName \o attachFilename

\* const attachPath = `${normalizedName} > ${attachFilename}`
attachPath(normalizedName, attachFilename) == normalizedName \o SEP \o attachFilename

\* manifest.push(normalizedName), with the address of the file pushed
pushManifest(acc, normalizedName, addr) ==
    [manifest |-> Append(acc.manifest, normalizedName),
     visited |-> Append(acc.visited, addr)]

\* variant: a file of no known type yields no part
binaryFileLabel_none(normalizedName) == <<>>

\* the final else branch: a text part naming the file, nothing of its bytes
binaryFileLabel(normalizedName) == << TextPart("BINARY FILE", normalizedName) >>

RECURSIVE processFile(_, _, _, _, _)
RECURSIVE processAttachments(_, _, _, _, _)

\* variant: the attachments are walked from the last to the first
processAttachments_reverse(fileBuffer, i, normalizedName, st, addr) ==
    IF i > Len(fileBuffer.atts) \/ st.thrown THEN st
    ELSE LET j == Len(fileBuffer.atts) - i + 1
             attach == fileBuffer.atts[j] IN
         IF attach.throws
         THEN [st EXCEPT !.thrown = TRUE]
         ELSE IF attach.content
         THEN LET attachFilename == attachFilenameOf(attach)
                  nested == processFile(attach, attachFilename, st.acc,
                                attachPath(normalizedName, attachFilename),
                                Append(addr, j))
              IN  processAttachments(fileBuffer, i + 1, normalizedName,
                      [parts |-> st.parts \o nested.parts,
                       acc |-> nested.acc, thrown |-> FALSE], addr)
         ELSE processAttachments(fileBuffer, i + 1, normalizedName, st, addr)

\* the for-loop over fileData.attachments, from attachment i on;
\* st.thrown records that getAttachment threw and the catch block was taken
processAttachments(fileBuffer, i, normalizedName, st, addr) ==
    IF i > Len(fileBuffer.atts) \/ st.thrown THEN st
    ELSE LET attach == fileBuffer.atts[i] IN
         IF attach.throws
         THEN [st EXCEPT !.thrown = TRUE]
         ELSE IF attach.content
         THEN LET attachFilename == attachFilenameOf(attach)
                  nested == processFile(attach, attachFilename, st.acc,
                                attachPath(normalizedName, attachFilename),
                                Append(addr, i))
              IN  processAttachments(fileBuffer, i + 1, normalizedName,
                      [parts |-> st.parts \o nested.parts,
                       acc |-> nested.acc, thrown |-> FALSE], addr)
         ELSE processAttachments(fileBuffer, i + 1, normalizedName, st, addr)

\* variant: the catch block takes the file's entry off the manifest
caught_forgetsEntry(parts, acc) ==
    [parts |-> parts,
     acc |-> [manifest |-> SubSeq(acc.manifest, 1, Len(acc.manifest) - 1),
              visited |-> SubSeq(acc.visited, 1, Len(acc.visited) - 1)]]

\* the catch block of processFile: the error is logged and the function
\* goes on to return the parts pushed before the throw
caught(parts, acc) == [parts |-> parts, acc |-> acc]

\* the try block of processFile: the strategy chosen from the file name;
\* a throw inside it is caught and the parts pushed so far are returned
dispatch(fileBuffer, filename, normalizedName, acc, addr) ==
    LET mimeType == getMimeType(filename) IN
    IF endsWith(filename, <<".","m","s","g">>)
    THEN IF fileBuffer.bad THEN caught(<<>>, acc)
         ELSE LET st == processAttachments(fileBuffer, 1, normalizedName,
                            [parts |-> <<TextPart("EMAIL", normalizedName)>>,
                             acc |-> acc, thrown |-> FALSE], addr)
              IN  [parts |-> st.parts, acc |-> st.acc]
    ELSE IF endsWith(filename, <<".","d","o","c","x">>)
    THEN IF fileBuffer.bad THEN caught(<<>>, acc)
         ELSE [parts |-> <<TextPart("DOCUMENT", normalizedName)>>, acc |-> acc]
    ELSE IF \/ endsWith(filename, <<".","x","l","s","x">>)
            \/ endsWith(filename, <<".","x","l","s">>)
            \/ endsWith(filename, <<".","c","s","v">>)
    THEN IF fileBuffer.bad THEN caught(<<>>, acc)
         ELSE [parts |-> <<TextPart("SPREADSHEET", normalizedName)>>, acc |-> acc]
    ELSE IF mimeType \in {"image/png", "image/jpeg", "application/pdf"}
    THEN [parts |-> <<[mimeType |-> mimeType, kind |-> "BYTES",
                       path |-> normalizedName]>>, acc |-> acc]
    ELSE [parts |-> binaryFileLabel(normalizedName), acc |-> acc]

\* variant: the size limit excludes a file of exactly MAX_FILE_SIZE bytes
processFile_sizeInclusive(fileBuffer, filename, acc, currentPath, addr) ==
    LET normalizedName == IF currentPath # <<>> THEN currentPath ELSE filename IN
    IF shouldSkipFile(filename) THEN [parts |-> <<>>, acc |-> acc]
    ELSE IF fileBuffer.size >= MAX_FILE_SIZE THEN [parts |-> <<>>, acc |-> acc]
    ELSE dispatch(fileBuffer, filename, normalizedName,
                  pushManifest(acc, normalizedName, addr), addr)

processFile(fileBuffer, filename, acc, currentPath, addr) ==
    LET normalizedName == IF currentPath # <<>> THEN currentPath ELSE filename IN
    IF shouldSkipFile(filename) THEN [parts |-> <<>>, acc |-> acc]
    ELSE IF fileBuffer.size > MAX_FILE_SIZE THEN [parts |-> <<>>, acc |-> acc]
    ELSE dispatch(fileBuffer, filename, normalizedName,
                  pushManifest(acc, normalizedName, addr), addr)

----------------------------------------------------------------------------
(* Inputs of one analyze request.                                          *)
(* Two families of requests are explored: "rich" ones, small, where every  *)
(* kind of file occurs (each extension class, the size limit, broken       *)
(* bytes, ignored names, nameless or empty attachments), and "plain" ones, *)
(* larger, built from a.pdf leaves and m.msg containers only, which give   *)
(* the traversal deeper and wider trees.                                   *)

MaxRichNodes == 2
MaxPlainNodes == 5

N_a_pdf  == <<"a", ".", "p", "d", "f">>
N_b_PNG  == <<"b", ".", "P", "N", "G">>
N_c_csv  == <<"c", ".", "c", "s", "v">>
N_d_docx == <<"d", ".", "d", "o", "c", "x">>
N_x_zip  == <<"x", ".", "z", "i", "p">>
N_hidden == <<".", "h">>
N_m_msg  == <<"m", ".", "m", "s", "g">>
N_M_MSG  == <<"M", ".", "M", "S", "G">>

File(name, size, bad, atts) ==
    [name |-> name, named |-> TRUE, content |-> TRUE, throws |-> FALSE,
     size |-> size, bad |-> bad, atts |-> atts]

Leaves(rich) ==
    IF rich
    THEN { File(N_a_pdf, 1, FALSE, <<>>),
           File(N_a_pdf, MAX_FILE_SIZE, FALSE, <<>>),
           File(N_a_pdf, MAX_FILE_SIZE + 1, FALSE, <<>>),
           File(N_b_PNG, 1, FALSE, <<>>),
           File(N_c_csv, 1, FALSE, <<>>),
           File(N_c_csv, 1, TRUE, <<>>),
           File(N_d_docx, 1, FALSE, <<>>),
           File(N_d_docx, 1, TRUE, <<>>),
           File(N_x_zip, 1, FALSE, <<>>),
           File(N_hidden, 1, FALSE, <<>>) }
    ELSE { File(N_a_pdf, 1, FALSE, <<>>) }

\* attachments that only a container can hold: without fileName, without
\* content, or unreadable
AttVariants ==
    { [File(<<>>, 1, FALSE, <<>>) EXCEPT !.named = FALSE],
      [File(N_a_pdf, 1, FALSE, <<>>) EXCEPT !.content = FALSE],
      [File(N_a_pdf, 1, FALSE, <<>>) EXCEPT !.throws = TRUE] }

ContainerNames(rich) == IF rich THEN {N_m_msg, N_M_MSG} ELSE {N_m_msg}

RECURSIVE AttForests(_, _)

\* .msg files of n nodes in all (the container and everything inside it)
Containers(n, rich) ==
    { File(nm, 1, FALSE, f) : nm \in ContainerNames(rich), f \in AttForests(n - 1, rich) }
    \cup (IF rich /\ n = 1 THEN { File(N_m_msg, 1, TRUE, <<>>) } ELSE {})

Trees(n, rich) == (IF n = 1 THEN Leaves(rich) ELSE {}) \cup Containers(n, rich)

AttTrees(n, rich) == Trees(n, rich) \cup (IF rich /\ n = 1 THEN AttVariants ELSE {})

\* attachment lists of n nodes in all
AttForests(n, rich) ==
    IF n = 0 THEN { <<>> }
    ELSE UNION { { <<t>> \o f : t \in AttTrees(k, rich), f \in AttForests(n - k, rich) }
                 : k \in 1..n }

\* a blob of the request: the uploaded file, its section, and what fetch does
Blob(file, section, fetch) ==
    [filename |-> file.name, section |-> section, fetch |-> fetch, file |-> file]

Blobs(n, rich) ==
    { Blob(f, "files_current", "ok") : f \in Trees(n, rich) }
    \cup (IF rich /\ n = 1
          THEN { Blob(File(N_a_pdf, 1, FALSE, <<>>), "files_prior", "ok"),
                 Blob(File(N_a_pdf, 1, FALSE, <<>>), "files_t776", "ok"),
                 Blob(File(N_a_pdf, 1, FALSE, <<>>), "other", "ok"),
                 Blob(File(N_a_pdf, 1, FALSE, <<>>), "files_current", "notok"),
                 Blob(File(N_a_pdf, 1, FALSE, <<>>), "files_current", "throws") }
          ELSE {})

RECURSIVE BlobForests(_, _)
BlobForests(n, rich) ==
    IF n = 0 THEN { <<>> }
    ELSE UNION { { <<b>> \o f : b \in Blobs(k, rich), f \in BlobForests(n - k, rich) }
                 : k \in 1..n }

\* a request where an uploaded file is named like the breadcrumb of an
\* attachment of another uploaded file
BreadcrumbNamed ==
    { << Blob(File(N_m_msg, 1, FALSE, << File(N_a_pdf, 1, FALSE, <<>>) >>),
              "files_current", "ok"),
         Blob(File(N_m_msg \o SEP \o N_a_pdf, 1, FALSE, <<>>), "files_current", "ok") >> }

Requests ==
    UNION { BlobForests(n, TRUE) : n \in 1..MaxRichNodes }
    \cup UNION { BlobForests(n, FALSE) : n \in 1..MaxPlainNodes }
    \cup BreadcrumbNamed


----------------------------------------------------------------------------
(* The model's reply and the reconciler.                                   *)
(* JSON values: [type |-> "object", fields |-> function from key to value],*)
(* [type |-> "array", items, props] (props: named properties set on the    *)
(* array object), [type |-> "null"].                                       *)

IsSpace(c) == c \in {" ", "\n", "\t"}

RECURSIVE trimStart(_)
trimStart(s) == IF Len(s) > 0 /\ IsSpace(s[1]) THEN trimStart(Tail(s)) ELSE s

RECURSIVE trimEnd(_)
trimEnd(s) ==
    IF Len(s) > 0 /\ IsSpace(s[Len(s)]) THEN trimEnd(SubSeq(s, 1, Len(s) - 1)) ELSE s

trim(s) == trimEnd(trimStart(s))

\* String.prototype.indexOf / lastIndexOf for one character: 0-based, -1 if absent
indexOf(s, c) ==
    IF \E i \in 1..Len(s) : s[i] = c
    THEN (CHOOSE i \in 1..Len(s) : s[i] = c /\ \A j \in 1..(i-1) : s[j] # c) - 1
    ELSE -1

lastIndexOf(s, c) ==
    IF \E i \in 1..Len(s) : s[i] = c
    THEN (CHOOSE i \in 1..Len(s) : s[i] = c /\ \A j \in (i+1)..Len(s) : s[j] # c) - 1
    ELSE -1

\* s.substring(from, to) for 0 <= from <= to
substring(s, from, to) ==
    SubSeq(s, from + 1, IF to > Len(s) THEN Len(s) ELSE to)

T_empty_object == <<"{", "}">>
T_claims_files == <<"{", "\"", "a", "l", "l", "_", "f", "i", "l", "e", "s", "_",
                    "d", "e", "t", "e", "c", "t", "e", "d", "\"", ":", "[", "\"",
                    "z", "\"", "]", "}">>
T_empty_array  == <<"[", "]">>
T_null         == <<"n", "u", "l", "l">>

JsonObject(fields) == [type |-> "object", fields |-> fields]
NoFields == [k \in {} |-> 0]

\* JSON.parse, on the JSON texts the replies below can contain; every other
\* text is not JSON and raises a SyntaxError
JSONparse(text) ==
    CASE text = T_empty_object -> JsonObject(NoFields)
      [] text = T_claims_files ->
             JsonObject([k \in {"all_files_detected"} |-> << <<"z">> >>])
      [] text = T_empty_array  -> [type |-> "array", items |-> <<>>, props |-> NoFields]
      [] text = T_null         -> [type |-> "null"]
      [] OTHER                 -> [type |-> "SyntaxError"]

\* JSON.stringify followed by the client's JSON.parse: an array keeps its
\* items only, an object keeps all its fields
JSONroundtrip(value) ==
    IF value.type = "array"
    THEN [type |-> "array", items |-> value.items, props |-> NoFields]
    ELSE value

\* variant: the slice ends at the first closing brace
cleanedResult_firstClose(text) ==
    LET t == trim(text)
        start == indexOf(t, "{")
        end == indexOf(t, "}")
    IN  IF start # -1 /\ end # -1 /\ end > start
        THEN substring(t, start, end + 1)
        ELSE t

\* the chatter clean-up of the reply
cleanedResult(text) ==
    LET t == trim(text)
        start == indexOf(t, "{")
        end == lastIndexOf(t, "}")
    IN  IF start # -1 /\ end # -1 /\ end > start
        THEN substring(t, start, end + 1)
        ELSE t

\* chatter that itself holds a brace
BracedBefore == <<"{", "x", "}", " ">>
BracedAfter == <<" ", ":", "}">>

\* a text in braces, not JSON, longer than the excerpt returned on failure
LongText == <<"{">> \o [i \in 1..510 |-> "x"] \o <<"}">>

Chatter(text) == <<"H", "i", " ">> \o text \o <<" ", "o", "k">>

Replies ==
    { <<>>, <<" ", " ">>, <<"x">>, <<"}", "{">>,
      T_empty_object, T_claims_files, T_empty_array, T_null,
      Chatter(T_empty_object), Chatter(T_claims_files), Chatter(T_empty_array),
      <<"[">> \o T_empty_object \o <<"]">>,
      <<"\n", " ">> \o Chatter(T_claims_files) \o <<" ", "\n">>,
      BracedBefore \o T_empty_object, T_claims_files \o BracedAfter,
      LongText, Chatter(LongText) }

NoData == [type |-> "none"]

\* variant: the whole cleaned text is returned
rawExcerpt_whole(cleaned) == cleaned

\* raw: cleanedResult.substring(0, 500)
rawExcerpt(cleaned) == substring(cleaned, 0, 500)

Response(status, error, raw, data) ==
    [status |-> status, error |-> error, raw |-> raw, data |-> data]

----------------------------------------------------------------------------
(* The analyze POST handler.  A blob's URL is its index in the request.    *)

Init ==
    /\ blobs \in Requests
    /\ pc = "loop"
    /\ bi = 1
    /\ manifest = <<>>
    /\ visited = <<>>
    /\ geminiParts = <<>>
    /\ blobsToDelete = <<>>
    /\ deleted = <<>>
    /\ responseText = <<>>
    /\ response = Response(0, "", <<>>, NoData)
    /\ ExportIdle
    /\ RewriteIdle
    /\ RetryIdle
    /\ UploadIdle

\* variant: only the current year's files are announced
SectionMarker_currentOnly(section) ==
    IF section = "files_current"
    THEN << TextPart("SECTION: CURRENT YEAR FILES", <<>>) >>
    ELSE <<>>

\* the section header pushed before the parts of a downloaded blob
SectionMarker(section) ==
    CASE section = "files_prior"   -> << TextPart("SECTION: PRIOR YEAR FILES", <<>>) >>
      [] section = "files_t776"    -> << TextPart("SECTION: PRIOR YEAR T776", <<>>) >>
      [] section = "files_current" -> << TextPart("SECTION: CURRENT YEAR FILES", <<>>) >>
      [] OTHER                     -> <<>>

\* one iteration of the for-loop over blobs
ProcessBlob ==
    /\ pc = "loop"
    /\ bi <= Len(blobs)
    /\ LET blobInfo == blobs[bi]
           r == processFile(blobInfo.file, blobInfo.filename,
                            [manifest |-> manifest, visited |-> visited],
                            <<>>, <<bi>>)
       IN  /\ blobsToDelete' = Append(blobsToDelete, bi)
           /\ IF blobInfo.fetch = "ok"
              THEN /\ geminiParts' = geminiParts \o SectionMarker(blobInfo.section) \o r.parts
                   /\ manifest' = r.acc.manifest
                   /\ visited' = r.acc.visited
              ELSE UNCHANGED <<geminiParts, manifest, visited>>
    /\ bi' = bi + 1
    /\ UNCHANGED <<blobs, pc, deleted, responseText, response>>
    /\ UNCHANGED <<exportVars, rewriteVars, retryVars, uploadVars>>

\* analyzeRentalDocuments returns the model's reply
ModelReplies ==
    /\ pc = "loop"
    /\ bi > Len(blobs)
    /\ responseText' \in Replies
    /\ pc' = "reply"
    /\ UNCHANGED <<blobs, bi, manifest, visited, geminiParts, blobsToDelete,
                   deleted, response>>
    /\ UNCHANGED <<exportVars, rewriteVars, retryVars, uploadVars>>

\* analyzeRentalDocuments throws: the handler's catch block cleans up
ModelThrows ==
    /\ pc = "loop"
    /\ bi > Len(blobs)
    /\ deleted' = deleted \o blobsToDelete
    /\ response' = Response(500, "error.message", <<>>, NoData)
    /\ pc' = "done"
    /\ UNCHANGED <<blobs, bi, manifest, visited, geminiParts, blobsToDelete,
                   responseText>>
    /\ UNCHANGED <<exportVars, rewriteVars, retryVars, uploadVars>>

\* the rest of the handler, from the blank check to the return
Reconcile ==
    /\ pc = "reply"
    /\ pc' = "done"
    /\ IF trim(responseText) = <<>>
       THEN /\ response' = Response(500, "Empty response from AI", <<>>, NoData)
            /\ UNCHANGED deleted
       ELSE LET cleaned == cleanedResult(responseText)
                data == JSONparse(cleaned)
            IN  CASE data.type = "SyntaxError" ->
                       /\ response' = Response(500, "The AI returned an invalid response",
                                               rawExcerpt(cleaned), NoData)
                       /\ UNCHANGED deleted
                  [] data.type = "null" ->
                       \* the assignment to a property of null throws a TypeError
                       /\ response' = Response(500, "error.message", <<>>, NoData)
                       /\ deleted' = deleted \o blobsToDelete
                  [] data.type = "object" ->
                       /\ response' = Response(200, "", <<>>, JSONroundtrip(
                              JsonObject(("all_files_detected" :> manifest) @@ data.fields)))
                       /\ deleted' = deleted \o blobsToDelete
                  [] data.type = "array" ->
                       /\ response' = Response(200, "", <<>>, JSONroundtrip(
                              [data EXCEPT !.props = ("all_files_detected" :> manifest) @@ @]))
                       /\ deleted' = deleted \o blobsToDelete
    /\ UNCHANGED <<blobs, bi, manifest, visited, geminiParts, blobsToDelete,
                   responseText>>
    /\ UNCHANGED <<exportVars, rewriteVars, retryVars, uploadVars>>

Next == ProcessBlob \/ ModelReplies \/ ModelThrows \/ Reconcile

Spec == Init /\ [][Next]_vars


----------------------------------------------------------------------------
(* Vocabulary of the properties: the files of the request by tree address. *)
(* <<i>> is the file of blob i, <<i, j>> its j-th attachment, and so on.   *)

Range(seq) == { seq[k] : k \in 1..Len(seq) }

Parent(a) == SubSeq(a, 1, Len(a) - 1)
Last(a) == a[Len(a)]

IsProperPrefix(c, a) == Len(c) < Len(a) /\ SubSeq(a, 1, Len(c)) = c

RECURSIVE Descend(_, _)
Descend(file, js) == IF js = <<>> THEN file ELSE Descend(file.atts[Head(js)], Tail(js))

NodeAt(a) == Descend(blobs[a[1]].file, Tail(a))

\* the file name processFile receives for the file at address a
FilenameAt(a) == IF Len(a) = 1 THEN blobs[a[1]].filename ELSE attachFilenameOf(NodeAt(a))

RECURSIVE AddrsUnder(_, _)
AddrsUnder(file, a) ==
    {a} \cup UNION { AddrsUnder(file.atts[j], Append(a, j)) : j \in 1..Len(file.atts) }

\* the extension, as the sniffer reads it
Ext(filename) == toLowerCase(SplitPop(filename))

SupportedExts ==
    { <<"p","d","f">>, <<"j","p","g">>, <<"j","p","e","g">>, <<"p","n","g">>,
      <<"x","l","s","x">>, <<"x","l","s">>, <<"c","s","v">>,
      <<"d","o","c","x">>, <<"d","o","c">>, <<"m","s","g">> }

IsMsgName(filename) == endsWith(filename, <<".","m","s","g">>)

Excluded(a) == shouldSkipFile(FilenameAt(a)) \/ NodeAt(a).size > MAX_FILE_SIZE

\* index of address a in visited
IndexOf(a) == CHOOSE k \in 1..Len(visited) : visited[k] = a

----------------------------------------------------------------------------
\* C1: after a successful parse the returned result's all_files_detected is
\* the pipeline's manifest, whatever the model's reply held.
HasProperty(value, key) ==
    CASE value.type = "object" -> key \in DOMAIN value.fields
      [] value.type = "array"  -> key \in DOMAIN value.props
      [] OTHER                 -> FALSE

PropertyOf(value, key) ==
    IF value.type = "object" THEN value.fields[key] ELSE value.props[key]

C1_ResultCarriesManifest ==
    (pc = "done" /\ response.status = 200) =>
        /\ HasProperty(response.data, "all_files_detected")
        /\ PropertyOf(response.data, "all_files_detected") = manifest

----------------------------------------------------------------------------
\* C2 (as stated): a processed .msg container with N attachments, counted
\* recursively through nested containers, has exactly N manifest entries below
\* its own, each equal to its parent's entry followed by " > " and the
\* attachment's name.
RECURSIVE CountAttachments(_)
CountAttachments(file) ==
    LET RECURSIVE Sum(_)
        Sum(j) == IF j > Len(file.atts) THEN 0
                  ELSE 1 + (IF IsMsgName(attachFilenameOf(file.atts[j]))
                            THEN CountAttachments(file.atts[j]) ELSE 0)
                       + Sum(j + 1)
    IN  Sum(1)

EntriesBelow(c) == { k \in 1..Len(visited) : IsProperPrefix(c, visited[k]) }

EntryExtendsParent(k) ==
    Len(visited[k]) > 1 =>
        /\ Parent(visited[k]) \in Range(visited)
        /\ manifest[k] = manifest[IndexOf(Parent(visited[k]))] \o SEP
                            \o FilenameAt(visited[k])

ProcessedContainers ==
    { c \in Range(visited) : c[1] < bi /\ IsMsgName(FilenameAt(c)) }

RECURSIVE ReachedFrom(_, _)
ReachedFrom(c, a) ==
    IF a = c THEN TRUE
    ELSE LET p == Parent(a) IN
         /\ ReachedFrom(c, p)
         /\ IsMsgName(FilenameAt(p))
         /\ ~NodeAt(p).bad
         /\ \A j \in 1..Last(a) : ~NodeAt(p).atts[j].throws
         /\ NodeAt(a).content
         /\ ~Excluded(a)

----------------------------------------------------------------------------
\* C3: the manifest is built in depth-first pre-order: a container's entry
\* comes before the entries of its attachments, a whole subtree before the
\* next sibling or the next top-level file, top-level files in blob order,
\* and no file is entered twice.
PreorderLess(a, b) ==
    \/ IsProperPrefix(a, b)
    \/ \E k \in 1..Len(a) :
          /\ k <= Len(b)
          /\ SubSeq(a, 1, k - 1) = SubSeq(b, 1, k - 1)
          /\ a[k] < b[k]

RECURSIVE PathOf(_)
PathOf(a) ==
    IF Len(a) = 1 THEN FilenameAt(a)
    ELSE PathOf(Parent(a)) \o SEP \o FilenameAt(a)

C3_DepthFirstPreorder ==
    /\ Len(manifest) = Len(visited)
    /\ \A k \in 1..Len(visited) :
          /\ manifest[k] = PathOf(visited[k])
          /\ Len(visited[k]) > 1 =>
                \E i \in 1..(k - 1) : visited[i] = Parent(visited[k])
    /\ \A i, j \in 1..Len(visited) :
          i < j => PreorderLess(visited[i], visited[j])

\* an attachment two levels down, then its parent's next sibling, then the
\* next top-level file
C3_Witness ==
    \E k \in 1..(Len(visited) - 2) :
        /\ Len(visited[k]) = 3
        /\ Len(visited[k + 1]) = 2
        /\ Len(visited[k + 2]) = 1

----------------------------------------------------------------------------
\* C4: a file, top-level or attachment, whose name is on the ignore-list or
\* that is longer than 10 MiB yields no part and no manifest entry; a file
\* of exactly 10 MiB is processed; a container holding an oversize
\* attachment still yields its own text part and manifest entry.
DirectAttachments(c) == { Append(c, j) : j \in 1..Len(NodeAt(c).atts) }

C4_Step ==
    (pc = "loop" /\ bi <= Len(blobs) /\ bi' = bi + 1 /\ blobs[bi].fetch = "ok") =>
        LET b == blobs[bi]
            f == b.file
            before == geminiParts \o SectionMarker(b.section)
        IN
        /\ (shouldSkipFile(b.filename) \/ f.size > MAX_FILE_SIZE) =>
              /\ manifest' = manifest
              /\ geminiParts' = before
        /\ (~shouldSkipFile(b.filename) /\ f.size = MAX_FILE_SIZE) =>
              /\ Len(manifest') > Len(manifest)
              /\ manifest'[Len(manifest) + 1] = b.filename
              /\ Len(geminiParts') > Len(before)
        /\ \A a \in AddrsUnder(f, <<bi>>) :
              (Len(a) > 1 /\ Excluded(a)) => a \notin Range(visited')
        /\ ( /\ IsMsgName(b.filename) /\ ~f.bad /\ ~Excluded(<<bi>>)
             /\ f.atts # <<>>
             /\ \A a \in DirectAttachments(<<bi>>) :
                   NodeAt(a).content /\ ~NodeAt(a).throws /\ Excluded(a) ) =>
              /\ manifest' = Append(manifest, b.filename)
              /\ geminiParts' = Append(before, TextPart("EMAIL", b.filename))

C4_SkipsLeaveNoTrace == [][C4_Step]_vars

\* a processed container that holds an oversize attachment
C4_Witness ==
    \E i \in 1..(bi - 1) :
        /\ blobs[i].fetch = "ok"
        /\ <<i>> \in Range(visited)
        /\ IsMsgName(blobs[i].filename)
        /\ \E a \in DirectAttachments(<<i>>) :
              NodeAt(a).content /\ NodeAt(a).size > MAX_FILE_SIZE

----------------------------------------------------------------------------
C5_Step ==
    (pc = "loop" /\ bi <= Len(blobs) /\ bi' = bi + 1 /\ blobs[bi].fetch = "ok") =>
        LET b == blobs[bi]
            before == geminiParts \o SectionMarker(b.section)
        IN
        /\ (Ext(b.filename) \notin SupportedExts /\ ~Excluded(<<bi>>)) =>
              /\ manifest' = Append(manifest, b.filename)
              /\ geminiParts' = Append(before, TextPart("BINARY FILE", b.filename))
        /\ \A a \in AddrsUnder(b.file, <<bi>>) :
              ( /\ Len(a) > 1
                /\ a \in Range(visited')
                /\ Ext(FilenameAt(a)) \notin SupportedExts ) =>
                 Cardinality({ k \in 1..Len(geminiParts') :
                                 geminiParts'[k] = TextPart("BINARY FILE", PathOf(a)) }) >= 1

----------------------------------------------------------------------------
\* C6: a file whose supported extension is written in upper case is handled
\* as the same file with the extension in lower case: same strategy, same
\* number and kinds of parts, same recursion, same number of manifest entries.
LowerExtName(filename) == SubSeq(filename, 1, LastDot(filename)) \o Ext(filename)

Shape(r) ==
    [ parts   |-> [k \in 1..Len(r.parts) |-> <<r.parts[k].mimeType, r.parts[k].kind>>],
      visited |-> r.acc.visited ]

NoEntries == [manifest |-> <<>>, visited |-> <<>>]

C6_ExtensionCaseIrrelevant ==
    \A i \in 1..(bi - 1) :
        Ext(blobs[i].filename) \in SupportedExts =>
            Shape(processFile(blobs[i].file, blobs[i].filename, NoEntries, <<>>, <<i>>))
              = Shape(processFile(blobs[i].file, LowerExtName(blobs[i].filename),
                                  NoEntries, <<>>, <<i>>))


----------------------------------------------------------------------------
(* The workbook builder of generateAuditPackage.                           *)
(*                                                                         *)
(* A JavaScript object used as a map (income, income_prior, expenses,      *)
(* expenses_prior) is the sequence of its entries [k, v] in insertion      *)
(* order.  A value of a row is Str(s) or Num(n); a worksheet maps a row    *)
(* and a column to a cell [present, v, f, l, z]: value, formula, link      *)
(* target and number format.  Rows and columns are counted from 0 as in    *)
(* the code; a cell reference is [col, row] as encode_cell writes it       *)
(* (column letter, row number from 1).                                     *)

\* the printable characters in increasing order of their UTF-16 code unit
\* (the grave accent, between "_" and "a", is left out)
CodeUnits ==
    <<" ", "!", "\"", "#", "$", "%", "&", "'", "(", ")", "*", "+", ",", "-", ".", "/", "0", "1", "2", "3", "4", "5", "6", "7", "8", "9", ":", ";", "<", "=", ">", "?", "@", "A", "B", "C", "D", "E", "F", "G", "H", "I", "J", "K", "L", "M", "N", "O", "P", "Q", "R", "S", "T", "U", "V", "W", "X", "Y", "Z", "[", "\\", "]", "^", "_", "a", "b", "c", "d", "e", "f", "g", "h", "i", "j", "k", "l", "m", "n", "o", "p", "q", "r", "s", "t", "u", "v", "w", "x", "y", "z", "{", "|", "}", "~">>

\* the position of c in that order, standing for c.charCodeAt(0)
charCodeAt(c) == CHOOSE i \in 1..Len(CodeUnits) : CodeUnits[i] = c

\* a sorts before b under Array.prototype.sort() without a comparator
RECURSIVE codeUnitLess(_, _)
codeUnitLess(a, b) ==
    IF b = <<>> THEN FALSE
    ELSE IF a = <<>> THEN TRUE
    ELSE IF Head(a) = Head(b) THEN codeUnitLess(Tail(a), Tail(b))
    ELSE charCodeAt(Head(a)) < charCodeAt(Head(b))

RECURSIVE sort(_)
sort(keys) ==
    IF keys = <<>> THEN <<>>
    ELSE LET m == CHOOSE i \in 1..Len(keys) :
                      \A j \in 1..Len(keys) : ~codeUnitLess(keys[j], keys[i])
         IN  <<keys[m]>> \o sort(SubSeq(keys, 1, m - 1) \o SubSeq(keys, m + 1, Len(keys)))

\* Array.from(new Set(keys)): the first occurrence of each key, in order
RECURSIVE arrayFromSet(_)
arrayFromSet(keys) ==
    IF keys = <<>> THEN <<>>
    ELSE LET front == arrayFromSet(SubSeq(keys, 1, Len(keys) - 1))
             last == keys[Len(keys)]
         IN  IF \E i \in 1..Len(front) : front[i] = last THEN front ELSE Append(front, last)

objectKeys(obj) == [i \in 1..Len(obj) |-> obj[i].k]

objectValues(obj) == [i \in 1..Len(obj) |-> obj[i].v]

hasKey(obj, key) == \E i \in 1..Len(obj) : obj[i].k = key

lookup(obj, key) == obj[CHOOSE i \in 1..Len(obj) : obj[i].k = key].v

Str(s) == [t |-> "s", s |-> s, n |-> 0]

Num(n) == [t |-> "n", s |-> <<>>, n |-> n]

NoValue == [t |-> "undefined", s |-> <<>>, n |-> 0]

L_INCOME == <<"I", "N", "C", "O", "M", "E">>
L_TOTAL_INCOME == <<"T", "O", "T", "A", "L", " ", "I", "N", "C", "O", "M", "E">>
L_EXPENSES == <<"E", "X", "P", "E", "N", "S", "E", "S">>
L_TOTAL_EXPENSES == <<"T", "O", "T", "A", "L", " ", "E", "X", "P", "E", "N", "S", "E", "S">>
L_NET_RENTAL_INCOME == <<"N", "E", "T", " ", "R", "E", "N", "T", "A", "L", " ", "I", "N", "C", "O", "M", "E">>
L_NOTES == <<"N", "O", "T", "E", "S">>
L_FILES == <<"F", "I", "L", "E", "S">>
L_TOTAL == <<"T", "O", "T", "A", "L">>
L_NOTES_MISSING_INFO == <<"N", "O", "T", "E", "S", " ", "/", " ", "M", "I", "S", "S", "I", "N", "G", " ", "I", "N", "F", "O">>
L_FILES_PROCESSED == <<"F", "I", "L", "E", "S", " ", "P", "R", "O", "C", "E", "S", "S", "E", "D", " ", "F", "O", "R", " ", "T", "H", "I", "S", " ", "P", "R", "O", "P", "E", "R", "T", "Y">>
L_PRIOR == <<"P", "R", "I", "O", "R">>
L_TEMPLATE == <<"T", "E", "M", "P", "L", "A", "T", "E">>
L_Audit_Trail == <<"A", "u", "d", "i", "t", " ", "T", "r", "a", "i", "l">>

currentYearLabel(tax_year) ==
    IF tax_year # 0 THEN <<"Current (", ToString(tax_year), ")">> ELSE <<"Current Year">>

priorYearLabel(tax_year) ==
    IF tax_year # 0 THEN <<"Prior (", ToString(tax_year - 1), ")">> ELSE <<"Prior Year">>

sheetName(prop, idx) ==
    LET name == IF prop.address # <<>> THEN prop.address
                ELSE <<"P", "r", "o", "p", " ">> \o <<ToString(idx + 1)>>
    IN  substring(name, 0, 31)

\* variant: the keys are left in insertion order
mergeCategories_insertionOrder(current, prior) ==
    arrayFromSet(objectKeys(current) \o objectKeys(prior))

\* the merged, sorted category keys of a block
mergeCategories(current, prior) ==
    sort(arrayFromSet(objectKeys(current) \o objectKeys(prior)))

\* the row pushed for one category
categoryRow(cat, currentMap, priorMap) ==
    LET prior == IF hasKey(priorMap, cat) THEN lookup(priorMap, cat) ELSE 0
        has == hasKey(currentMap, cat)
        current == IF has THEN lookup(currentMap, cat).amount ELSE 0
        source == IF has THEN lookup(currentMap, cat).source_file ELSE <<>>
    IN  <<Str(cat), Num(prior), Num(current), Num(current - prior), Str(source)>>

categoryRows(cats, currentMap, priorMap) ==
    [i \in 1..Len(cats) |-> categoryRow(cats[i], currentMap, priorMap)]

\* the running total of column c (0-based) over category rows
RECURSIVE total(_, _)
total(catRows, c) ==
    IF catRows = <<>> THEN 0 ELSE Head(catRows)[c + 1].n + total(Tail(catRows), c)

headerRow(marker, tax_year) ==
    <<Str(marker), Str(priorYearLabel(tax_year)), Str(currentYearLabel(tax_year)),
      Str(<<"Variance">>), Str(<<"Source File (Link)">>)>>

\* the array of rows built for one property
buildRows(prop, tax_year) ==
    LET incomeRows == categoryRows(mergeCategories(prop.income, prop.income_prior),
                                   prop.income, prop.income_prior)
        expenseRows == categoryRows(mergeCategories(prop.expenses, prop.expenses_prior),
                                    prop.expenses, prop.expenses_prior)
        totalPrior == total(incomeRows, 1)
        totalCurrent == total(incomeRows, 2)
        totalExpPrior == total(expenseRows, 1)
        totalExpCurrent == total(expenseRows, 2)
    IN  << <<Str(<<"PROPERTY SUMMARY">>),
             Str(IF prop.address # <<>> THEN prop.address ELSE <<"Unknown">>)>>,
           <<Str(<<>>)>>,
           headerRow(L_INCOME, tax_year) >>
        \o incomeRows
        \o << <<Str(L_TOTAL_INCOME), Num(totalPrior), Num(totalCurrent),
                Num(totalCurrent - totalPrior)>>,
              <<Str(<<>>)>>,
              headerRow(L_EXPENSES, tax_year) >>
        \o expenseRows
        \o << <<Str(L_TOTAL_EXPENSES), Num(totalExpPrior), Num(totalExpCurrent),
                Num(totalExpCurrent - totalExpPrior)>>,
              <<Str(<<>>)>>,
              <<Str(L_NET_RENTAL_INCOME), Num(totalPrior - totalExpPrior),
                Num(totalCurrent - totalExpCurrent),
                Num((totalCurrent - totalExpCurrent) - (totalPrior - totalExpPrior))>> >>
        \o (IF prop.notes # <<>>
            THEN << <<Str(<<>>)>>, <<Str(L_NOTES_MISSING_INFO)>>, <<Str(prop.notes)>> >>
            ELSE <<>>)
        \o << <<Str(<<>>)>>, <<Str(L_FILES_PROCESSED)>> >>
        \o [i \in 1..Len(prop.source_files_read) |-> <<Str(prop.source_files_read[i])>>]

NoRef == [col |-> "", row |-> 0]

\* XLSX.utils.encode_cell({c, r})
getRef(c, r) == [col |-> <<"A", "B", "C", "D", "E">>[c + 1], row |-> r + 1]

NoFormula == [fn |-> "", a |-> NoRef, b |-> NoRef]

\* `SUM(${a}:${b})`
SumFormula(a, b) == [fn |-> "SUM", a |-> a, b |-> b]

\* `${a}-${b}`
MinusFormula(a, b) == [fn |-> "-", a |-> a, b |-> b]

NoCell == [present |-> FALSE, v |-> NoValue, f |-> NoFormula, l |-> <<>>, z |-> FALSE]

\* the object literal { f, z: fmt } assigned to a cell
FormulaCell(f) == [present |-> TRUE, v |-> NoValue, f |-> f, l |-> <<>>, z |-> TRUE]

\* XLSX.utils.aoa_to_sheet(rows): one cell per value of each row
aoa_to_sheet(rows) ==
    [r \in 0..(Len(rows) - 1) |->
        [c \in 0..4 |->
            IF c < Len(rows[r + 1])
            THEN [present |-> TRUE, v |-> rows[r + 1][c + 1], f |-> NoFormula,
                  l |-> <<>>, z |-> FALSE]
            ELSE NoCell]]

\* the row labels that never receive a variance formula
NoVarianceLabels ==
    {L_INCOME, L_EXPENSES, L_TOTAL_INCOME, L_TOTAL_EXPENSES, L_NET_RENTAL_INCOME, <<>>}

\* step 1 of the first rows.forEach: section detection from the first cell
identifySection(st, firstCell, rIdx) ==
    IF firstCell = Str(L_INCOME) THEN [st EXCEPT !.incomeStart = rIdx + 1]
    ELSE IF firstCell = Str(L_TOTAL_INCOME)
    THEN [st EXCEPT !.incomeEnd = rIdx - 1, !.totalIncomeRow = rIdx]
    ELSE IF firstCell = Str(L_EXPENSES) THEN [st EXCEPT !.expenseStart = rIdx + 1]
    ELSE IF firstCell = Str(L_TOTAL_EXPENSES)
    THEN [st EXCEPT !.expenseEnd = rIdx - 1, !.totalExpenseRow = rIdx]
    ELSE IF firstCell = Str(L_NET_RENTAL_INCOME) THEN [st EXCEPT !.netIncomeRow = rIdx]
    ELSE st

\* step 2: the number format on columns B, C, D
applyNumberFormat(worksheet, rIdx) ==
    [worksheet EXCEPT ![rIdx] =
        [c \in 0..4 |->
            IF c \in {1, 2, 3} /\ @[c].present /\ @[c].v.t = "n"
            THEN [@[c] EXCEPT !.z = TRUE]
            ELSE @[c]]]

\* step 3: the variance formula of an individual item
addVarianceFormula(worksheet, r, rIdx) ==
    IF /\ rIdx > 0
       /\ r[1].s # <<>>
       /\ r[1].s \notin NoVarianceLabels
       /\ ~startsWith(r[1].s, L_NOTES)
       /\ ~startsWith(r[1].s, L_FILES)
       /\ worksheet[rIdx][3].present
    THEN [worksheet EXCEPT ![rIdx][3].f = MinusFormula(getRef(2, rIdx), getRef(1, rIdx))]
    ELSE worksheet

\* the first rows.forEach, from row rIdx on; st carries the seven row
\* variables and the worksheet
RECURSIVE scanRows(_, _, _)
scanRows(rows, rIdx, st) ==
    IF rIdx >= Len(rows) THEN st
    ELSE LET r == rows[rIdx + 1]
             st1 == identifySection(st, r[1], rIdx)
             ws2 == applyNumberFormat(st1.worksheet, rIdx)
             ws3 == addVarianceFormula(ws2, r, rIdx)
         IN  scanRows(rows, rIdx + 1, [st1 EXCEPT !.worksheet = ws3])

\* step 4 for one block: the three cells of its total row
addSectionTotal(worksheet, start, end, totalRow) ==
    IF start # -1 /\ end >= start
    THEN [worksheet EXCEPT
            ![totalRow][1] = FormulaCell(SumFormula(getRef(1, start), getRef(1, end))),
            ![totalRow][2] = FormulaCell(SumFormula(getRef(2, start), getRef(2, end))),
            ![totalRow][3] = FormulaCell(MinusFormula(getRef(2, totalRow), getRef(1, totalRow)))]
    ELSE worksheet

\* step 5: the three cells of the net income row
addNetIncome(worksheet, netIncomeRow, totalIncomeRow, totalExpenseRow) ==
    IF netIncomeRow # -1 /\ totalIncomeRow # -1 /\ totalExpenseRow # -1
    THEN [worksheet EXCEPT
            ![netIncomeRow][1] = FormulaCell(MinusFormula(getRef(1, totalIncomeRow),
                                                          getRef(1, totalExpenseRow))),
            ![netIncomeRow][2] = FormulaCell(MinusFormula(getRef(2, totalIncomeRow),
                                                          getRef(2, totalExpenseRow))),
            ![netIncomeRow][3] = FormulaCell(MinusFormula(getRef(2, netIncomeRow),
                                                          getRef(1, netIncomeRow)))]
    ELSE worksheet

\* variant: only the breadcrumb separator is rewritten
sanitizedPath_keepBackslash(sourceFile) == ReplaceAll(sourceFile, SEP, <<"_", "a", "t", "t", "a", "c", "h", "m", "e", "n", "t", "s", "/">>)

\* sourceFile.replace(/ > /g, "_attachments/").replace(/\\/g, "/")
sanitizedPath(sourceFile) ==
    ReplaceAll(ReplaceAll(sourceFile, SEP, <<"_", "a", "t", "t", "a", "c", "h", "m", "e", "n", "t", "s", "/">>), <<"\\">>, <<"/">>)

\* the Target of the link put on a source file cell
linkTarget(sourceFile) == <<"S", "o", "u", "r", "c", "e", "_", "D", "o", "c", "u", "m", "e", "n", "t", "s", "/">> \o sanitizedPath(sourceFile)

\* the second rows.forEach: a link on column E of the rows that name a source
RECURSIVE addHyperlinks(_, _, _)
addHyperlinks(worksheet, rows, rIdx) ==
    IF rIdx >= Len(rows) THEN worksheet
    ELSE LET r == rows[rIdx + 1]
             linked == /\ Len(r) >= 5
                       /\ r[5].s # <<>>
                       /\ rIdx > 0
                       /\ r[1].s # L_INCOME
                       /\ r[1].s # L_EXPENSES
                       /\ ~startsWith(r[1].s, L_TOTAL)
         IN  addHyperlinks(IF linked
                           THEN [worksheet EXCEPT ![rIdx][4].l = linkTarget(r[5].s)]
                           ELSE worksheet,
                           rows, rIdx + 1)

\* the worksheet of one property, after formulas, formats and links
buildWorksheet(rows) ==
    LET st == scanRows(rows, 0,
                  [incomeStart |-> -1, incomeEnd |-> -1, totalIncomeRow |-> -1,
                   expenseStart |-> -1, expenseEnd |-> -1, totalExpenseRow |-> -1,
                   netIncomeRow |-> -1, worksheet |-> aoa_to_sheet(rows)])
        ws4a == addSectionTotal(st.worksheet, st.incomeStart, st.incomeEnd,
                                st.totalIncomeRow)
        ws4b == addSectionTotal(ws4a, st.expenseStart, st.expenseEnd, st.totalExpenseRow)
        ws5 == addNetIncome(ws4b, st.netIncomeRow, st.totalIncomeRow, st.totalExpenseRow)
    IN  addHyperlinks(ws5, rows, 0)

\* the sheet appended for property idx (0-based) of the result
propertySheet(prop, idx, tax_year) ==
    LET rows == buildRows(prop, tax_year) IN
    [name |-> sheetName(prop, idx), rows |-> rows, worksheet |-> buildWorksheet(rows)]

\* the source files a map of current-year entries cites
citedBy(obj) == { objectValues(obj)[i].source_file : i \in 1..Len(obj) } \ {<<>>}

\* citedFiles: the files cited by the income or expenses of any property
citedFiles(properties) ==
    UNION { citedBy(properties[p].income) \cup citedBy(properties[p].expenses) :
            p \in 1..Len(properties) }

\* variant: only PRIOR marks a reference document
isReference_priorOnly(f) == startsWith(f, L_PRIOR)

isReference(f) == startsWith(f, L_PRIOR) \/ startsWith(f, L_TEMPLATE)

unusedFiles(res) ==
    SelectSeq(res.all_files_detected,
              LAMBDA f : ~isReference(f) /\ f \notin citedFiles(res.properties))

L_UNUSED_FILES == <<"UNUSED FILES (FOR REVIEW) - Files uploaded but not used in summary">>

\* the rows of the Audit Trail sheet
manifestRows(res) ==
    LET unused == unusedFiles(res) IN
    << <<Str(<<"FULL AUDIT TRAIL - ALL FILES PROCESSED">>)>>, <<Str(<<>>)>> >>
    \o [i \in 1..Len(res.all_files_detected) |-> <<Str(res.all_files_detected[i])>>]
    \o (IF Len(unused) > 0
        THEN << <<Str(<<>>)>>,
                <<Str(L_UNUSED_FILES)>>,
                <<Str(<<"The following current year documents were detected but no income/expenses were extracted from them:">>)>> >>
             \o [i \in 1..Len(unused) |-> <<Str(unused[i])>>]
        ELSE << <<Str(<<>>)>>,
                <<Str(<<"All current year documents were successfully used in the summary.">>)>> >>)

manifestSheet(res) ==
    LET rows == manifestRows(res) IN
    [name |-> L_Audit_Trail, rows |-> rows, worksheet |-> aoa_to_sheet(rows)]

----------------------------------------------------------------------------
(* The archive of generateAuditPackage.                                    *)
(* An original file is [file, webkitRelativePath].  The archive is the     *)
(* sequence of its entries [path, dir, src, srcs] in the order of JSZip's  *)
(* files object: src is the tree address of the file whose bytes the entry *)
(* holds (<<i>> for original file i, <<i, j>> for its j-th attachment,     *)
(* <<>> for a folder or the workbook), srcs the addresses of every file    *)
(* written at that path.                                                   *)

\* this.files[name] = object: a new name goes last, a known one is replaced
putEntry(z, path, dir, src) ==
    IF \E i \in 1..Len(z) : z[i].path = path
    THEN [i \in 1..Len(z) |->
             IF z[i].path = path
             THEN [path |-> path, dir |-> dir, src |-> src, srcs |-> z[i].srcs \cup {src}]
             ELSE z[i]]
    ELSE Append(z, [path |-> path, dir |-> dir, src |-> src, srcs |-> {src}])

\* the parent folders of path, created when absent, outermost first
RECURSIVE addFolders(_, _, _)
addFolders(z, path, i) ==
    IF i >= Len(path) THEN z
    ELSE IF path[i] = "/" /\ ~\E k \in 1..Len(z) : z[k].path = SubSeq(path, 1, i)
    THEN addFolders(Append(z, [path |-> SubSeq(path, 1, i), dir |-> TRUE, src |-> <<>>,
                               srcs |-> {}]), path, i + 1)
    ELSE addFolders(z, path, i + 1)

L_Source_Documents == <<"S", "o", "u", "r", "c", "e", "_", "D", "o", "c", "u", "m", "e", "n", "t", "s", "/">>

\* sourceFolder.file(name, data)
sourceFolderFile(z, name, src) ==
    putEntry(addFolders(z, L_Source_Documents \o name, 1),
             L_Source_Documents \o name, FALSE, src)

\* `${attachData.fileName}`
fileNameText(attach) == IF attach.named THEN attach.name ELSE <<"u", "n", "d", "e", "f", "i", "n", "e", "d">>

\* the loop over data.attachments, from attachment j on; a throw of
\* getAttachment ends it in the catch block
RECURSIVE addAttachments(_, _, _, _, _)
addAttachments(z, file, j, msgFolderName, i) ==
    IF j > Len(file.atts) THEN z
    ELSE LET attach == file.atts[j] IN
         IF attach.throws THEN z
         ELSE addAttachments(
                  sourceFolderFile(z, msgFolderName \o <<"/">> \o fileNameText(attach),
                                   <<i, j>>),
                  file, j + 1, msgFolderName, i)

packageFile_uncaught(z, f, i) ==
    LET zipPath == IF f.webkitRelativePath # <<>> THEN f.webkitRelativePath ELSE f.file.name
        z1 == sourceFolderFile(z, zipPath, <<i>>)
    IN  IF endsWith(toLowerCase(f.file.name), <<".","m","s","g">>)
        THEN IF f.file.bad \/ \E j \in 1..Len(f.file.atts) : f.file.atts[j].throws
             THEN <<>>
             ELSE addAttachments(z1, f.file, 1, zipPath \o <<"_", "a", "t", "t", "a", "c", "h", "m", "e", "n", "t", "s">>, i)
        ELSE z1

\* one iteration of the loop over originalFiles, for file number i
packageFile(z, f, i) ==
    LET zipPath == IF f.webkitRelativePath # <<>> THEN f.webkitRelativePath ELSE f.file.name
        z1 == sourceFolderFile(z, zipPath, <<i>>)
    IN  IF endsWith(toLowerCase(f.file.name), <<".","m","s","g">>) /\ ~f.file.bad
        THEN addAttachments(z1, f.file, 1, zipPath \o <<"_", "a", "t", "t", "a", "c", "h", "m", "e", "n", "t", "s">>, i)
        ELSE z1

----------------------------------------------------------------------------
(* Inputs of one call of generateAuditPackage.                             *)
(* Two families of calls are explored.  In the first the original files    *)
(* vary (every kind of file and attachment, selected singly or dropped as  *)
(* a folder F) and the result is what analysing those files returns: its   *)
(* manifest is the normalizer's, and its one property cites one manifest   *)
(* entry.  In the second the result varies: category keys, prior year      *)
(* maps, notes, tax year, number of properties and their addresses, and    *)
(* the manifest.                                                           *)

MaxPackageNodes == 2
MaxCats == 2
MaxProps == 2

\* a File of the browser, and with it the upload section whose list holds it
\* (filesCurrent, filesPrior or filesT776)
OriginalFile(file, folder) ==
    [file |-> file,
     webkitRelativePath |-> IF folder THEN <<"F", "/">> \o file.name ELSE <<>>,
     section |-> "files_current"]

RECURSIVE FileLists(_)
FileLists(n) ==
    IF n = 0 THEN { <<>> }
    ELSE UNION { { <<t>> \o f : t \in Trees(k, TRUE), f \in FileLists(n - k) } : k \in 1..n }

\* the manifest the analyze request builds for the files: each is uploaded
\* under file.name and handed to processFile in turn
RECURSIVE uploadedManifest(_, _, _)
uploadedManifest(files, i, acc) ==
    IF i > Len(files) THEN acc
    ELSE uploadedManifest(files, i + 1,
             processFile(files[i].file, files[i].file.name, acc, <<>>, <<i>>).acc)

P_A_pdf == <<"A", ".", "p", "d", "f">>
P_B_msg_C_pdf == <<"B", ".", "m", "s", "g", " ", ">", " ", "C", ".", "p", "d", "f">>
P_PRIOR_D_pdf == <<"P", "R", "I", "O", "R", "/", "D", ".", "p", "d", "f">>
P_TEMPLATE_T_pdf == <<"T", "E", "M", "P", "L", "A", "T", "E", "/", "T", ".", "p", "d", "f">>

K_Rent == <<"R", "e", "n", "t">>
K_Tax == <<"T", "a", "x">>
K_rent == <<"r", "e", "n", "t">>

Mapping(amount, source_file) == [amount |-> amount, source_file |-> source_file]

Entry(k, v) == [k |-> k, v |-> v]

Property(address, income, income_prior, expenses, expenses_prior, notes, source_files_read) ==
    [address |-> address, income |-> income, income_prior |-> income_prior,
     expenses |-> expenses, expenses_prior |-> expenses_prior, notes |-> notes,
     source_files_read |-> source_files_read]

\* a property with one income and one expense category, citing source
PlainProperty(address, source) ==
    Property(address,
             << Entry(K_Rent, Mapping(12, source)) >>, << Entry(K_Rent, 10) >>,
             << Entry(K_Tax, Mapping(3, <<>>)) >>, << Entry(K_Tax, 4) >>,
             <<>>, IF source = <<>> THEN <<>> ELSE <<source>>)

AnalysisResult(properties, tax_year, all_files_detected) ==
    [properties |-> properties, tax_year |-> tax_year,
     all_files_detected |-> all_files_detected]

Call(res, files) == [result |-> res, originalFiles |-> files]

PackageCalls ==
    UNION { UNION { LET files == [i \in 1..Len(fl) |-> OriginalFile(fl[i], folder)]
                        entries == uploadedManifest(files, 1,
                                       [manifest |-> <<>>, visited |-> <<>>]).manifest
                    IN  { Call(AnalysisResult(<<PlainProperty(<<"A">>, e)>>, 0, entries),
                               files)
                          : e \in {entries[k] : k \in 1..Len(entries)} \cup {<<>>} }
                    : fl \in FileLists(n), folder \in BOOLEAN }
            : n \in 1..MaxPackageNodes }

\* the category keys the model may choose: plain ones and ones that read
\* like the captions of the sheet
KeyPool ==
    { K_Rent, K_Tax, K_rent, L_INCOME, L_TOTAL_INCOME, L_EXPENSES, L_TOTAL_EXPENSES,
      L_NET_RENTAL_INCOME, <<"N", "O", "T", "E", "S">>, <<"T", "O", "T", "A", "L", "S">> }

RECURSIVE KeySeqs(_)
KeySeqs(n) ==
    IF n = 0 THEN { <<>> }
    ELSE KeySeqs(n - 1)
         \cup { Append(s, k) : s \in { t \in KeySeqs(n - 1) : Len(t) = n - 1 },
                               k \in KeyPool }

DistinctKeySeqs(n) ==
    { s \in KeySeqs(n) : \A i, j \in 1..Len(s) : i # j => s[i] # s[j] }

Amounts == <<5, 7, 11, 13>>

\* current-year maps over the keys: the first entry cites A.pdf
CurrentMaps ==
    { [i \in 1..Len(s) |->
          Entry(s[i], Mapping(Amounts[i], IF i = 1 THEN P_A_pdf ELSE <<>>))]
      : s \in DistinctKeySeqs(MaxCats) }

PriorMaps ==
    { [i \in 1..Len(s) |-> Entry(s[i], Amounts[i] + 1)] : s \in DistinctKeySeqs(MaxCats) }

BaseProperty == PlainProperty(<<"A">>, P_A_pdf)

VariedProperties ==
    { [BaseProperty EXCEPT !.income = m] : m \in CurrentMaps }
    \cup { [BaseProperty EXCEPT !.expenses = m] : m \in CurrentMaps }
    \cup { [BaseProperty EXCEPT !.income_prior = m] : m \in PriorMaps }
    \cup { [BaseProperty EXCEPT !.expenses_prior = m] : m \in PriorMaps }
    \cup { [BaseProperty EXCEPT !.notes = <<"n">>] }

LongAddress == [i \in 1..32 |-> "x"]

FurtherProperties ==
    { PlainProperty(a, P_B_msg_C_pdf)
      : a \in { <<"A">>, <<"B">>, <<>>, LongAddress, L_Audit_Trail } }

RECURSIVE FurtherLists(_)
FurtherLists(n) ==
    IF n = 0 THEN { <<>> }
    ELSE { <<p>> \o l : p \in FurtherProperties, l \in FurtherLists(n - 1) }

Manifests ==
    { << P_A_pdf, P_B_msg_C_pdf, P_PRIOR_D_pdf >>,
      << P_TEMPLATE_T_pdf, P_B_msg_C_pdf, P_A_pdf, <<"C", ".", "p", "d", "f">>, P_PRIOR_D_pdf, <<"D", ".", "p", "d", "f">> >>,
      << P_A_pdf >>,
      << >> }

WorkbookCalls ==
    LET files == << OriginalFile(File(N_a_pdf, 1, FALSE, <<>>), FALSE) >> IN
    { Call(AnalysisResult(ps, 0, << P_A_pdf, P_B_msg_C_pdf, P_PRIOR_D_pdf >>), files)
      : ps \in { <<p>> : p \in VariedProperties }
               \cup UNION { { <<BaseProperty>> \o l : l \in FurtherLists(n) }
                            : n \in 0..(MaxProps - 1) } }
    \cup { Call(AnalysisResult(<<BaseProperty>>, ty, m), files)
           : ty \in {0, 2024}, m \in Manifests }

\* a call for a .msg file that holds a .msg file that holds a.pdf, with the
\* result of analysing it, citing the innermost file
NestedCalls ==
    LET inner == File(N_m_msg, 1, FALSE, << File(N_a_pdf, 1, FALSE, <<>>) >>)
        files == << OriginalFile(File(N_m_msg, 1, FALSE, <<inner>>), FALSE) >>
        entries == uploadedManifest(files, 1, [manifest |-> <<>>, visited |-> <<>>]).manifest
    IN  { Call(AnalysisResult(<<PlainProperty(<<"A">>, entries[Len(entries)])>>, 0, entries),
               files) }

\* calls for one file uploaded as a reference document, in the prior-year
\* or the prior-year T776 section, with the result of analysing it, which
\* cites no file
SectionCalls ==
    { LET files == << [OriginalFile(File(N_a_pdf, 1, FALSE, <<>>), FALSE)
                          EXCEPT !.section = s] >>
          entries == uploadedManifest(files, 1, [manifest |-> <<>>, visited |-> <<>>]).manifest
      IN  Call(AnalysisResult(<<PlainProperty(<<"A">>, <<>>)>>, 0, entries), files)
      : s \in {"files_prior", "files_t776"} }

ExportCalls == PackageCalls \cup WorkbookCalls \cup NestedCalls \cup SectionCalls

----------------------------------------------------------------------------
(* generateAuditPackage, step by step.                                     *)

\* no analyze request is under way
AnalyzeIdle ==
    /\ blobs = <<>>
    /\ pc = "idle"
    /\ bi = 1
    /\ manifest = <<>>
    /\ visited = <<>>
    /\ geminiParts = <<>>
    /\ blobsToDelete = <<>>
    /\ deleted = <<>>
    /\ responseText = <<>>
    /\ response = Response(0, "", <<>>, NoData)

\* the call has created the archive and its Source_Documents folder
ExportInit ==
    /\ AnalyzeIdle
    /\ RewriteIdle
    /\ RetryIdle
    /\ UploadIdle
    /\ \E call \in ExportCalls :
          /\ originalFiles = call.originalFiles
          /\ result = call.result
    /\ fi = 1
    /\ zip = << [path |-> L_Source_Documents, dir |-> TRUE, src |-> <<>>, srcs |-> {}] >>
    /\ workbook = <<>>
    /\ xpc = "files"

\* one iteration of the loop over originalFiles
AddOriginalFile ==
    /\ xpc = "files"
    /\ fi <= Len(originalFiles)
    /\ zip' = packageFile(zip, originalFiles[fi], fi)
    /\ fi' = fi + 1
    /\ UNCHANGED <<originalFiles, result, workbook, xpc>>
    /\ UNCHANGED <<analyzeVars, rewriteVars, retryVars, uploadVars>>

\* book_append_sheet throws when the workbook has a sheet of that name
book_append_sheet(wb, sheet) ==
    IF \E i \in 1..Len(wb) : wb[i].name = sheet.name
    THEN [threw |-> TRUE, workbook |-> wb]
    ELSE [threw |-> FALSE, workbook |-> Append(wb, sheet)]

\* one iteration of result.properties.forEach
AppendPropertySheet ==
    /\ xpc = "files"
    /\ fi > Len(originalFiles)
    /\ Len(workbook) < Len(result.properties)
    /\ LET idx == Len(workbook)
           r == book_append_sheet(workbook,
                    propertySheet(result.properties[idx + 1], idx, result.tax_year))
       IN  /\ workbook' = r.workbook
           /\ xpc' = IF r.threw THEN "threw" ELSE xpc
    /\ UNCHANGED <<originalFiles, result, fi, zip>>
    /\ UNCHANGED <<analyzeVars, rewriteVars, retryVars, uploadVars>>

\* the Audit Trail sheet, the workbook written into the archive, the return
FinishPackage ==
    /\ xpc = "files"
    /\ fi > Len(originalFiles)
    /\ Len(workbook) = Len(result.properties)
    /\ LET r == book_append_sheet(workbook, manifestSheet(result))
       IN  /\ workbook' = r.workbook
           /\ IF r.threw
              THEN xpc' = "threw" /\ UNCHANGED zip
              ELSE /\ xpc' = "done"
                   /\ zip' = putEntry(zip, <<"T", "7", "7", "6", "_", "T", "a", "x", "_", "S", "u", "m", "m", "a", "r", "y", ".", "x", "l", "s", "x">>, FALSE, <<>>)
    /\ UNCHANGED <<originalFiles, result, fi>>
    /\ UNCHANGED <<analyzeVars, rewriteVars, retryVars, uploadVars>>

ExportNext == AddOriginalFile \/ AppendPropertySheet \/ FinishPackage

SpecExport == ExportInit /\ [][ExportNext]_vars

----------------------------------------------------------------------------
(* Vocabulary of the export properties.  The sheet of property p is        *)
(* workbook[p]; its rows are laid out by construction: the income          *)
(* categories from row 3 (counted from 0), then TOTAL INCOME, a blank row, *)
(* the EXPENSES caption, the expense categories, TOTAL EXPENSES, a blank   *)
(* row and NET RENTAL INCOME.                                              *)

PropertySheets == { p \in 1..Len(workbook) : p <= Len(result.properties) }

KeySet(obj) == { obj[i].k : i \in 1..Len(obj) }

IncomeCount(p) ==
    Cardinality(KeySet(result.properties[p].income)
                \cup KeySet(result.properties[p].income_prior))

ExpenseCount(p) ==
    Cardinality(KeySet(result.properties[p].expenses)
                \cup KeySet(result.properties[p].expenses_prior))

FirstIncomeRow(p) == 3
TotalIncomeRowOf(p) == 3 + IncomeCount(p)
FirstExpenseRow(p) == 6 + IncomeCount(p)
TotalExpenseRowOf(p) == 6 + IncomeCount(p) + ExpenseCount(p)
NetIncomeRowOf(p) == 8 + IncomeCount(p) + ExpenseCount(p)

\* the reference to column col of row r (counted from 0)
RefTo(col, r) == [col |-> col, row |-> r + 1]

RECURSIVE SumAmounts(_)
SumAmounts(obj) == IF obj = <<>> THEN 0 ELSE Head(obj).v.amount + SumAmounts(Tail(obj))

RECURSIVE SumNumbers(_)
SumNumbers(obj) == IF obj = <<>> THEN 0 ELSE Head(obj).v + SumNumbers(Tail(obj))

ColumnOf(ref) == CHOOSE c \in 0..4 : <<"A", "B", "C", "D", "E">>[c + 1] = ref.col

\* the value a spreadsheet computes for SUM(a:b) over the literal numbers
\* of the sheet built from rows
RECURSIVE SumRows(_, _, _, _)
SumRows(rows, c, from, to) ==
    IF from > to THEN 0
    ELSE (IF from + 1 <= Len(rows) /\ c + 1 <= Len(rows[from + 1])
             /\ rows[from + 1][c + 1].t = "n"
          THEN rows[from + 1][c + 1].n ELSE 0)
         + SumRows(rows, c, from + 1, to)

Evaluate(sheet, f) == SumRows(sheet.rows, ColumnOf(f.a), f.a.row - 1, f.b.row - 1)

\* what analysing the original files records: manifest and addresses
Analysed == uploadedManifest(originalFiles, 1, [manifest |-> <<>>, visited |-> <<>>])

----------------------------------------------------------------------------
\* C7: when the result's paths are the normalizer's manifest paths, the link
\* target of a row citing a direct attachment of a .msg file is the archive
\* path at which the packager wrote that attachment, with or without a
\* relative folder path and with or without an attachment file name.
C7_LinkTargetIsArchivePath ==
    (xpc = "done" /\ result.all_files_detected = Analysed.manifest) =>
        \A p \in PropertySheets :
            \A rIdx \in 1..(Len(workbook[p].rows) - 1) :
                \A k \in 1..Len(Analysed.manifest) :
                    LET r == workbook[p].rows[rIdx + 1] IN
                    ( /\ Len(Analysed.visited[k]) = 2
                      /\ Len(r) >= 5
                      /\ r[5].s = Analysed.manifest[k] )
                    => \E e \in 1..Len(zip) :
                           /\ zip[e].path = workbook[p].worksheet[rIdx][4].l
                           /\ Analysed.visited[k] \in zip[e].srcs

----------------------------------------------------------------------------
\* C8: for any category keys, the prior and current cells of the TOTAL INCOME
\* row are SUM formulas over exactly the income category rows, so that they
\* evaluate to the sum of the income_prior values and of the income amounts;
\* likewise TOTAL EXPENSES over the expense category rows.
C8_TotalsSumTheirBlock ==
    \A p \in PropertySheets :
        LET sheet == workbook[p]
            prop == result.properties[p]
            ti == TotalIncomeRowOf(p)
            te == TotalExpenseRowOf(p)
        IN  /\ IncomeCount(p) >= 1 =>
                  /\ sheet.worksheet[ti][1].f
                         = SumFormula(RefTo("B", FirstIncomeRow(p)), RefTo("B", ti - 1))
                  /\ sheet.worksheet[ti][2].f
                         = SumFormula(RefTo("C", FirstIncomeRow(p)), RefTo("C", ti - 1))
                  /\ Evaluate(sheet, sheet.worksheet[ti][1].f) = SumNumbers(prop.income_prior)
                  /\ Evaluate(sheet, sheet.worksheet[ti][2].f) = SumAmounts(prop.income)
            /\ ExpenseCount(p) >= 1 =>
                  /\ sheet.worksheet[te][1].f
                         = SumFormula(RefTo("B", FirstExpenseRow(p)), RefTo("B", te - 1))
                  /\ sheet.worksheet[te][2].f
                         = SumFormula(RefTo("C", FirstExpenseRow(p)), RefTo("C", te - 1))
                  /\ Evaluate(sheet, sheet.worksheet[te][1].f) = SumNumbers(prop.expenses_prior)
                  /\ Evaluate(sheet, sheet.worksheet[te][2].f) = SumAmounts(prop.expenses)

----------------------------------------------------------------------------
\* C9: whatever the category keys, the prior and current cells of the NET
\* RENTAL INCOME row are formulas taking the TOTAL INCOME row minus the TOTAL
\* EXPENSES row in the same column, and its variance cell is the formula
\* current minus prior of the net row itself.
C9_NetReferencesTotalRows ==
    \A p \in PropertySheets :
        LET ws == workbook[p].worksheet
            ti == TotalIncomeRowOf(p)
            te == TotalExpenseRowOf(p)
            net == NetIncomeRowOf(p)
        IN  /\ ws[net][1].f = MinusFormula(RefTo("B", ti), RefTo("B", te))
            /\ ws[net][2].f = MinusFormula(RefTo("C", ti), RefTo("C", te))
            /\ ws[net][3].f = MinusFormula(RefTo("C", net), RefTo("B", net))

----------------------------------------------------------------------------
\* the files listed under the unused-files caption of the Audit Trail sheet
UnusedListed ==
    LET rows == workbook[Len(workbook)].rows
        at == Len(result.all_files_detected) + 4
    IN  IF Len(rows) >= at /\ rows[at] = <<Str(L_UNUSED_FILES)>>
        THEN [i \in 1..(Len(rows) - at - 1) |-> rows[at + 1 + i][1].s]
        ELSE <<>>

\* the source files cited by the income or expenses of some property
Cited ==
    { f \in UNION { { result.properties[p].income[i].v.source_file :
                          i \in 1..Len(result.properties[p].income) }
                    \cup { result.properties[p].expenses[i].v.source_file :
                          i \in 1..Len(result.properties[p].expenses) }
                    : p \in 1..Len(result.properties) } : f # <<>> }

\* the manifest positions that belong in the unused list
UnusedPositions ==
    { i \in 1..Len(result.all_files_detected) :
          LET f == result.all_files_detected[i] IN
          /\ f \notin Cited
          /\ ~(Len(f) >= 5 /\ SubSeq(f, 1, 5) = L_PRIOR)
          /\ ~(Len(f) >= 8 /\ SubSeq(f, 1, 8) = L_TEMPLATE) }

\* C10: the unused-files list of the Audit Trail is the manifest entries, in
\* manifest order, that no income or expense cites and that do not start
\* with PRIOR or TEMPLATE; for the manifest A.pdf, B.msg > C.pdf, PRIOR/D.pdf
\* and the citation A.pdf it is B.msg > C.pdf alone.
C10_UnusedFilesList ==
    xpc = "done" =>
        /\ Len(UnusedListed) = Cardinality(UnusedPositions)
        /\ \A i \in UnusedPositions :
               UnusedListed[Cardinality({ j \in UnusedPositions : j <= i })]
                   = result.all_files_detected[i]
        /\ ( /\ result.all_files_detected = << P_A_pdf, P_B_msg_C_pdf, P_PRIOR_D_pdf >>
             /\ Cited = { P_A_pdf } )
           => UnusedListed = << P_B_msg_C_pdf >>

\* the Audit Trail was written for a manifest holding a cited file, a PRIOR
\* file, a TEMPLATE file and files left unused
C10_Witness ==
    /\ xpc = "done"
    /\ Cited = { P_A_pdf }
    /\ \E i, j, k \in 1..Len(result.all_files_detected) :
          /\ result.all_files_detected[i] = P_PRIOR_D_pdf
          /\ result.all_files_detected[j] = P_TEMPLATE_T_pdf
          /\ result.all_files_detected[k] = P_A_pdf
    /\ Len(UnusedListed) >= 2

----------------------------------------------------------------------------
\* the original file or attachment at a tree address of the original files
SourceAt(a) ==
    IF Len(a) = 1 THEN originalFiles[a[1]].file
    ELSE originalFiles[a[1]].file.atts[a[2]]

\* the path the packager is to give original file i
ZipPathOf(i) ==
    L_Source_Documents
    \o (IF originalFiles[i].webkitRelativePath # <<>>
        THEN originalFiles[i].webkitRelativePath
        ELSE originalFiles[i].file.name)

\* C17: after packaging, every original input file, whatever the other files
\* of the list are named, has an entry at Source_Documents/<relativePath or
\* name> whose content is that file's bytes.
C17_EveryOriginalFileInArchive ==
    xpc = "done" =>
        \A i \in 1..Len(originalFiles) :
            \E e \in 1..Len(zip) :
                /\ zip[e].path = ZipPathOf(i)
                /\ ~zip[e].dir
                /\ SourceAt(zip[e].src) = originalFiles[i].file

----------------------------------------------------------------------------
\* the name the sheet of property p (counted from 1) is to have
ExpectedSheetName(p) ==
    LET address == result.properties[p].address IN
    IF address = <<>> THEN <<"P", "r", "o", "p", " ", ToString(p)>>
    ELSE SubSeq(address, 1, IF Len(address) > 31 THEN 31 ELSE Len(address))

\* C18: for any list of properties, addresses distinct or not, the workbook
\* built has one sheet per property, in property order, named by the address
\* cut to 31 characters or Prop <n> for an empty address, followed by one
\* Audit Trail sheet.
C18_OneSheetPerProperty ==
    xpc \notin {"idle", "files"} =>
        /\ xpc = "done"
        /\ Len(workbook) = Len(result.properties) + 1
        /\ \A p \in 1..Len(result.properties) : workbook[p].name = ExpectedSheetName(p)
        /\ workbook[Len(workbook)].name = L_Audit_Trail

----------------------------------------------------------------------------
IsMsgFile(i) ==
    LET name == toLowerCase(originalFiles[i].file.name) IN
    Len(name) >= 4 /\ SubSeq(name, Len(name) - 3, Len(name)) = <<".", "m", "s", "g">>

\* attachment extraction throws for original file i: the reader rejects the
\* bytes, or getAttachment throws for one of the attachments
ExtractionFails(i) ==
    /\ IsMsgFile(i)
    /\ \/ originalFiles[i].file.bad
       \/ \E j \in 1..Len(originalFiles[i].file.atts) : originalFiles[i].file.atts[j].throws

InArchive(z, path) == \E e \in 1..Len(z) : z[e].path = path /\ ~z[e].dir

AttachmentPathOf(i, j) ==
    LET attach == originalFiles[i].file.atts[j] IN
    ZipPathOf(i) \o <<"_", "a", "t", "t", "a", "c", "h", "m", "e", "n", "t", "s", "/">>
                 \o (IF attach.named THEN attach.name
                     ELSE <<"u", "n", "d", "e", "f", "i", "n", "e", "d">>)

L_T776_Tax_Summary == <<"T776_Tax_Summary.xlsx">>

\* in the archive returned after an extraction failure: the failed file's own
\* entry, every other file's entry, the attachments of every other .msg
\* file that was read, and the workbook at the root
C20_State ==
    (xpc = "done" /\ \E i \in 1..Len(originalFiles) : ExtractionFails(i)) =>
        /\ \A k \in 1..Len(originalFiles) :
              /\ InArchive(zip, ZipPathOf(k))
              /\ (IsMsgFile(k) /\ ~ExtractionFails(k)) =>
                     \A j \in 1..Len(originalFiles[k].file.atts) :
                         InArchive(zip, AttachmentPathOf(k, j))
        /\ \E e \in 1..Len(zip) : zip[e].src = <<>> /\ ~zip[e].dir /\ Len(zip[e].path) > 0
                                  /\ ~\E c \in 1..Len(zip[e].path) : zip[e].path[c] = "/"

\* the step that packages a file whose extraction fails goes on to the next
\* file and loses no entry written so far
C20_Step ==
    (xpc = "files" /\ fi <= Len(originalFiles) /\ fi' # fi /\ ExtractionFails(fi)) =>
        /\ xpc' = "files"
        /\ fi' = fi + 1
        /\ InArchive(zip', ZipPathOf(fi))
        /\ \A e \in 1..Len(zip) : \E d \in 1..Len(zip') : zip'[d].path = zip[e].path

\* C20: when attachment extraction throws for a .msg file, packaging goes on:
\* the archive returned holds that file's own entry, the entries of all other
\* files and of their attachments, and the workbook at its root.
C20_ExtractionFailureDoesNotAbort == []C20_State /\ [][C20_Step]_vars

C20_Witness ==
    /\ xpc = "done"
    /\ Len(originalFiles) = 2
    /\ \E i \in 1..2 : ExtractionFails(i) /\ ~ExtractionFails(3 - i)
    /\ \A k \in 1..2 : InArchive(zip, ZipPathOf(k))

----------------------------------------------------------------------------
\* C28: when the result's paths are the normalizer's manifest for the same
\* files, the link target derived from any manifest entry, at any nesting
\* depth, is the path of an archive entry that the packager wrote for the
\* file behind that manifest entry.
C28_EveryManifestEntryInArchive ==
    (xpc = "done" /\ result.all_files_detected = Analysed.manifest) =>
        \A k \in 1..Len(Analysed.manifest) :
            \E e \in 1..Len(zip) :
                /\ ~zip[e].dir
                /\ zip[e].path = linkTarget(Analysed.manifest[k])
                /\ Analysed.visited[k] \in zip[e].srcs

----------------------------------------------------------------------------
\* C29: a file uploaded in the prior-year section or in the prior-year T776
\* section is never listed under the unused files of the Audit Trail,
\* whatever its name.
C29_ReferenceFilesNeverUnused ==
    (xpc = "done" /\ result.all_files_detected = Analysed.manifest) =>
        \A k \in 1..Len(Analysed.manifest) :
            originalFiles[Analysed.visited[k][1]].section \in {"files_prior", "files_t776"}
            => \A u \in 1..Len(UnusedListed) : UnusedListed[u] # Analysed.manifest[k]

----------------------------------------------------------------------------
(* The hyperlink path rewrite on its own: a source file value is rewritten *)
(* and the result rewritten again.                                         *)

MaxPathLen == 4

PathAlphabet == {" ", ">", "\\", "a"}

RECURSIVE PathsOfLen(_)
PathsOfLen(n) ==
    IF n = 0 THEN { <<>> }
    ELSE { Append(s, c) : s \in PathsOfLen(n - 1), c \in PathAlphabet }

P_Email_invoice == <<"E", "m", "a", "i", "l", ".", "m", "s", "g", " ", ">", " ", "i", "n", "v", "o", "i", "c", "e", ".", "p", "d", "f">>

SourceFiles ==
    UNION { PathsOfLen(n) : n \in 0..MaxPathLen }
    \cup { P_Email_invoice, <<"F", "\\", "m", ".", "m", "s", "g", " ", ">", " ", "b", ".", "m", "s", "g", " ", ">", " ", "c", ".", "p", "d", "f">>, P_B_msg_C_pdf }

RewriteInit ==
    /\ AnalyzeIdle
    /\ ExportIdle
    /\ RetryIdle
    /\ UploadIdle
    /\ rewriteInput \in SourceFiles
    /\ rewritten = <<>>

\* the rewrite applied to the value, then to its own result
Rewrite ==
    /\ Len(rewritten) < 2
    /\ rewritten' = Append(rewritten,
                           sanitizedPath(IF rewritten = <<>> THEN rewriteInput
                                         ELSE rewritten[Len(rewritten)]))
    /\ UNCHANGED rewriteInput
    /\ UNCHANGED <<analyzeVars, exportVars, retryVars, uploadVars>>

SpecRewrite == RewriteInit /\ [][Rewrite]_vars

\* s holds pat at some position
Occurs(pat, s) == \E i \in 1..(Len(s) - Len(pat) + 1) : SubSeq(s, i, i + Len(pat) - 1) = pat

----------------------------------------------------------------------------
\* C11: the rewrite leaves no " > " and no backslash in its result, leaves a
\* value holding neither as it is, maps Email.msg > invoice.pdf to
\* Email.msg_attachments/invoice.pdf, and applied to its own result gives
\* that result again.
C11_RewriteIdempotent ==
    /\ Len(rewritten) >= 1 =>
          /\ ~Occurs(SEP, rewritten[1])
          /\ ~Occurs(<<"\\">>, rewritten[1])
          /\ (~Occurs(SEP, rewriteInput) /\ ~Occurs(<<"\\">>, rewriteInput))
                 => rewritten[1] = rewriteInput
          /\ rewriteInput = P_Email_invoice
                 => rewritten[1] = <<"E", "m", "a", "i", "l", ".", "m", "s", "g", "_", "a", "t", "t", "a", "c", "h", "m", "e", "n", "t", "s", "/", "i", "n", "v", "o", "i", "c", "e", ".", "p", "d", "f">>
    /\ Len(rewritten) = 2 => rewritten[2] = rewritten[1]

\* a value with a separator and a backslash has been rewritten twice
C11_Witness ==
    /\ Len(rewritten) = 2
    /\ Occurs(SEP, rewriteInput)
    /\ Occurs(<<"\\">>, rewriteInput)
    /\ rewritten[1] # rewriteInput

----------------------------------------------------------------------------
(* Vocabulary of the reconciler properties.                                *)

ObjectTexts == { T_empty_object, T_claims_files }

\* texts without an opening brace, and texts without a closing brace
NoOpen(s) == \A i \in 1..Len(s) : s[i] # "{"
NoClose(s) == \A i \in 1..Len(s) : s[i] # "}"

\* the ways of reading the reply as chatter, one JSON object, chatter
Readings ==
    UNION { { <<i, i + Len(obj)>> : i \in { k \in 0..(Len(responseText) - Len(obj)) :
                                               SubSeq(responseText, k + 1, k + Len(obj)) = obj } }
            : obj \in ObjectTexts }

\* the piece of the trimmed reply from its first "{" through its last "}",
\* or the whole of it when no "{" comes before a "}"
Slice(t) ==
    IF \E p \in 1..Len(t) : t[p] = "{" /\ \E q \in (p + 1)..Len(t) : t[q] = "}"
    THEN LET p == CHOOSE x \in 1..Len(t) : t[x] = "{" /\ \A y \in 1..(x - 1) : t[y] # "{"
             q == CHOOSE x \in 1..Len(t) : t[x] = "}" /\ \A y \in (x + 1)..Len(t) : t[y] # "}"
         IN  SubSeq(t, p, q)
    ELSE t

IsPrefixOf(a, b) == Len(a) <= Len(b) /\ SubSeq(b, 1, Len(a)) = a

E_Invalid == "The AI returned an invalid response"
E_Empty == "Empty response from AI"

\* the response is the one the handler gives when the text it parsed is text
AnsweredFrom(text) ==
    LET data == JSONparse(text) IN
    CASE data.type = "SyntaxError" ->
             /\ response.status = 500
             /\ response.error = E_Invalid
             /\ IsPrefixOf(response.raw, text)
      [] data.type = "object" ->
             /\ response.status = 200
             /\ response.data.type = "object"
             /\ DOMAIN response.data.fields = DOMAIN data.fields \cup {"all_files_detected"}
      [] data.type = "array" ->
             /\ response.status = 200
             /\ response.data.type = "array"
             /\ response.data.items = data.items
      [] OTHER -> response.status = 500 /\ response.error # E_Invalid

\* the handler has answered a reply that is not blank
Answered == pc = "done" /\ response.error # E_Empty /\ Len(responseText) > 0
            /\ trim(responseText) # <<>>

----------------------------------------------------------------------------
\* C12 as stated: the text parsed is the trimmed reply from its first "{"
\* through its last "}" (the whole trimmed reply when there is no such
\* pair), and so every reply made of chatter, one JSON object and chatter
\* parses to that object.
C12_ChatterObjectChatterParses ==
    Answered =>
        /\ AnsweredFrom(Slice(trim(responseText)))
        /\ \A r \in Readings :
               AnsweredFrom(SubSeq(responseText, r[1] + 1, r[2]))

\* C12, amended: the text parsed is the trimmed reply from its first "{"
\* through its last "}" (the whole trimmed reply when there is no such
\* pair), and so a reply made of chatter, one JSON object and chatter parses
\* to that object when the chatter before it holds no "{" and the chatter
\* after it no "}".
C12_BraceFreeChatterParses ==
    Answered =>
        /\ AnsweredFrom(Slice(trim(responseText)))
        /\ \A r \in Readings :
               ( /\ NoOpen(SubSeq(responseText, 1, r[1]))
                 /\ NoClose(SubSeq(responseText, r[2] + 1, Len(responseText))) )
               => AnsweredFrom(SubSeq(responseText, r[1] + 1, r[2]))

\* a reply with chatter on both sides of an object, and blanks around it,
\* has been parsed to the object
C12_Witness ==
    /\ Answered
    /\ response.status = 200
    /\ \E r \in Readings : r[1] > 2 /\ r[2] < Len(responseText) - 2
    /\ IsSpace(responseText[1])

----------------------------------------------------------------------------
\* what the handler does with the model's reply, from the blank check on
C13_Step ==
    (pc = "reply" /\ pc' = "done") =>
        LET cleaned == Slice(trim(responseText)) IN
        /\ trim(responseText) = <<>> =>
              /\ response'.status = 500
              /\ response'.error = E_Empty
              /\ response'.error # E_Invalid
              /\ response'.data = NoData
        /\ (trim(responseText) # <<>> /\ JSONparse(cleaned).type = "SyntaxError") =>
              /\ response'.status = 500
              /\ response'.error = E_Invalid
              /\ response'.error # E_Empty
              /\ IsPrefixOf(response'.raw, cleaned)
              /\ Len(response'.raw) <= 500
              /\ (Len(cleaned) <= 500 => response'.raw = cleaned)
              /\ response'.data = NoData

\* C13: a blank reply fails the request with the empty-response error, a
\* reply that is not JSON after the chatter is stripped fails it with the
\* different malformed-response error carrying a prefix of at most 500
\* characters of the cleaned text, and neither returns an analysis result.
C13_BlankAndMalformedFail == [][C13_Step]_vars

\* a malformed reply longer than 500 characters has been answered
C13_Witness ==
    /\ pc = "done"
    /\ response.error = E_Invalid
    /\ Len(response.raw) = 500
    /\ Len(Slice(trim(responseText))) > 500
    /\ Len(responseText) > Len(Slice(trim(responseText)))

----------------------------------------------------------------------------
(* Vocabulary of the failure properties of the normalizer.                 *)

AllAddrs == UNION { AddrsUnder(blobs[i].file, <<i>>) : i \in 1..Len(blobs) }

\* the file name sends the file to text or tabular extraction
IsExtractionName(filename) ==
    \/ endsWith(filename, <<".","d","o","c","x">>)
    \/ endsWith(filename, <<".","x","l","s","x">>)
    \/ endsWith(filename, <<".","x","l","s">>)
    \/ endsWith(filename, <<".","c","s","v">>)

\* extraction is attempted on the file at address a and throws
ExtractionThrows(a) ==
    NodeAt(a).bad /\ IsExtractionName(FilenameAt(a)) /\ ~Excluded(a)

\* what processFile gives for the file at address a, called as its parent
\* or the handler calls it, on an empty manifest
AloneAt(a) ==
    processFile(NodeAt(a), FilenameAt(a), NoEntries,
                IF Len(a) = 1 THEN <<>> ELSE PathOf(a), a)

C14_State ==
    /\ \A i, j \in 1..Len(blobs) :
          (i < j /\ j < bi /\ ExtractionThrows(<<i>>)
             /\ blobs[j].fetch = "ok" /\ ~Excluded(<<j>>))
          => \E k \in 1..Len(visited) : visited[k] = <<j>>
    /\ \A a \in AllAddrs :
          ExtractionThrows(a) =>
               /\ AloneAt(a).parts = <<>>
               /\ AloneAt(a).acc.manifest = << PathOf(a) >>
               /\ Cardinality({ k \in 1..Len(visited) : visited[k] = a }) <= 1
               /\ \A k \in 1..Len(visited) : visited[k] = a => manifest[k] = PathOf(a)

C14_Step ==
    (pc = "loop" /\ bi <= Len(blobs) /\ bi' = bi + 1
       /\ blobs[bi].fetch = "ok" /\ ExtractionThrows(<<bi>>)) =>
        /\ manifest' = Append(manifest, blobs[bi].filename)
        /\ visited' = Append(visited, <<bi>>)
        /\ geminiParts' = geminiParts \o SectionMarker(blobs[bi].section)
        /\ pc' = "loop"

\* C14: when text or tabular extraction of a file throws, the file's path is
\* in the manifest exactly once, the file contributes no part, no error
\* reaches the caller, and the files after it are still processed.
C14_ExtractionFailureIsolated == []C14_State /\ [][C14_Step]_vars

\* extraction threw for the first file and the file after it was processed
C14_Witness ==
    /\ Len(blobs) >= 2
    /\ bi > 2
    /\ ExtractionThrows(<<1>>)
    /\ visited = << <<1>>, <<2>> >>
    /\ \E k \in 1..Len(geminiParts) : geminiParts[k].path = blobs[2].filename

----------------------------------------------------------------------------
\* unpacking the .msg container at address a throws: when it is opened or
\* its data read, or when one of its attachments is read
UnpackThrows(a) ==
    /\ IsMsgName(FilenameAt(a))
    /\ ~Excluded(a)
    /\ \/ NodeAt(a).bad
       \/ \E j \in 1..Len(NodeAt(a).atts) : NodeAt(a).atts[j].throws

\* C15: a .msg container whose unpacking throws at any point contributes no
\* part to the model message, and the files after it are still processed.
C15_FailedContainerContributesNothing ==
    /\ \A a \in AllAddrs : (a[1] < bi /\ UnpackThrows(a)) => AloneAt(a).parts = <<>>
    /\ \A i \in 1..Len(blobs) :
          (i < bi /\ blobs[i].fetch = "ok" /\ UnpackThrows(<<i>>)
             /\ \A j \in 1..Len(blobs) : j # i => blobs[j].filename # blobs[i].filename)
          => /\ \A k \in 1..Len(geminiParts) :
                    ~IsPrefixOf(blobs[i].filename, geminiParts[k].path)
             /\ \A j \in (i + 1)..(bi - 1) :
                    (blobs[j].fetch = "ok" /\ ~Excluded(<<j>>))
                    => \E k \in 1..Len(visited) : visited[k] = <<j>>

----------------------------------------------------------------------------
\* C16: every manifest entry is a unique fully qualified path: two processed
\* files have the same entry only when they have the same name under the
\* same parent container (a container being told by its own path), or are
\* top-level files of the same name; a top-level file never has the entry
\* of an attachment.
C16_ManifestPathsUnique ==
    \A k1, k2 \in 1..Len(manifest) :
        (k1 # k2 /\ manifest[k1] = manifest[k2]) =>
            /\ FilenameAt(visited[k1]) = FilenameAt(visited[k2])
            /\ \/ Len(visited[k1]) = 1 /\ Len(visited[k2]) = 1
               \/ /\ Len(visited[k1]) > 1
                  /\ Len(visited[k2]) > 1
                  /\ PathOf(Parent(visited[k1])) = PathOf(Parent(visited[k2]))

----------------------------------------------------------------------------
\* analyzeRentalDocuments: the retry loop around model.generateContent

maxRetries == 6

\* String.prototype.includes
includes(s, pat) == \E i \in 1..(Len(s) - Len(pat) + 1) : SubSeq(s, i, i + Len(pat) - 1) = pat

\* the condition under which the catch block retries
isRateLimit_anyError(msg) == TRUE

isRateLimit(msg) ==
    \/ includes(msg, <<"4", "2", "9">>)
    \/ includes(msg, <<"T", "o", "o", " ", "M", "a", "n", "y", " ", "R", "e", "q", "u", "e", "s", "t", "s">>)
    \/ includes(msg, <<"R", "e", "s", "o", "u", "r", "c", "e", " ", "e", "x", "h", "a", "u", "s", "t", "e", "d">>)
    \/ includes(msg, <<"q", "u", "o", "t", "a">>)

Digits == <<"0", "1", "2", "3", "4", "5", "6", "7", "8", "9">>

isDigit(c) == \E d \in 1..10 : Digits[d] = c

digitValue(c) == (CHOOSE d \in 1..10 : Digits[d] = c) - 1

\* the number of digits of s from position p (counted from 1) on: \d+ is greedy
digitRun(s, p) ==
    IF p > Len(s) \/ ~isDigit(s[p]) THEN 0
    ELSE CHOOSE n \in 1..(Len(s) - p + 1) :
            /\ \A k \in p..(p + n - 1) : isDigit(s[k])
            /\ (p + n > Len(s) \/ ~isDigit(s[p + n]))

RECURSIVE parseInt(_)
parseInt(ds) ==
    IF ds = <<>> THEN 0
    ELSE 10 * parseInt(SubSeq(ds, 1, Len(ds) - 1)) + digitValue(ds[Len(ds)])

RECURSIVE pow10(_)
pow10(n) == IF n = 0 THEN 1 ELSE 10 * pow10(n - 1)

NoMatch == [found |-> FALSE, int |-> <<>>, frac |-> <<>>]

\* a match of <prefix>(\d+(\.\d+)?)<suffix> that begins at position i: the
\* digits, the optional fraction (taken when it can be), then the suffix
matchAt(s, i, prefix, suffix, fraction) ==
    LET p  == i + Len(prefix)
        n  == digitRun(s, p)
        q  == p + n
        m  == IF fraction /\ q <= Len(s) /\ s[q] = "." THEN digitRun(s, q + 1) ELSE 0
        e  == q + 1 + m
        sufAt(k) == k + Len(suffix) - 1 <= Len(s) /\ SubSeq(s, k, k + Len(suffix) - 1) = suffix
    IN  IF ~(i + Len(prefix) - 1 <= Len(s) /\ SubSeq(s, i, p - 1) = prefix) \/ n = 0
        THEN NoMatch
        ELSE IF m > 0 /\ sufAt(e)
        THEN [found |-> TRUE, int |-> SubSeq(s, p, q - 1), frac |-> SubSeq(s, q + 1, e - 1)]
        ELSE IF sufAt(q)
        THEN [found |-> TRUE, int |-> SubSeq(s, p, q - 1), frac |-> <<>>]
        ELSE NoMatch

\* String.prototype.match for the two patterns: the leftmost match
match(s, prefix, suffix, fraction) ==
    IF \E i \in 1..Len(s) : matchAt(s, i, prefix, suffix, fraction).found
    THEN matchAt(s, CHOOSE i \in 1..Len(s) :
                        /\ matchAt(s, i, prefix, suffix, fraction).found
                        /\ \A j \in 1..(i - 1) : ~matchAt(s, j, prefix, suffix, fraction).found,
                 prefix, suffix, fraction)
    ELSE NoMatch

matchWait(msg) == match(msg, <<"r", "e", "t", "r", "y", " ", "i", "n", " ">>, <<"s">>, TRUE)

matchDelay(msg) == match(msg, <<"\"", "r", "e", "t", "r", "y", "D", "e", "l", "a", "y", "\"", ":", "\"">>, <<"s", "\"">>, FALSE)

\* Math.ceil(parseFloat(x) * 1000) for x = int.frac
ceilMillis(int, frac) ==
    LET num == parseInt(int \o frac) * 1000
        den == pow10(Len(frac))
    IN  (num + den - 1) \div den

\* the delay waited before the next attempt, attempt being already counted up
delay(msg, att) ==
    IF matchWait(msg).found
    THEN ceilMillis(matchWait(msg).int, matchWait(msg).frac) + 2000
    ELSE IF matchDelay(msg).found
    THEN parseInt(matchDelay(msg).int) * 1000 + 2000
    ELSE 10000 * att

\* error.message || error.toString() of an Error
errMsgOf(error) == IF error.message # <<>> THEN error.message ELSE <<"E", "r", "r", "o", "r">>

M_429 == <<"[", "4", "2", "9", " ", "T", "o", "o", " ", "M", "a", "n", "y", " ", "R", "e", "q", "u", "e", "s", "t", "s", "]", " ", "s", "l", "o", "w", " ", "d", "o", "w", "n">>
M_TooMany == <<"T", "o", "o", " ", "M", "a", "n", "y", " ", "R", "e", "q", "u", "e", "s", "t", "s">>
M_Exhausted == <<"R", "e", "s", "o", "u", "r", "c", "e", " ", "e", "x", "h", "a", "u", "s", "t", "e", "d">>
M_quota == <<"q", "u", "o", "t", "a", " ", "e", "x", "c", "e", "e", "d", "e", "d", ",", " ", "r", "e", "t", "r", "y", " ", "i", "n", " ", "7", "s">>
M_quota_fraction == <<"q", "u", "o", "t", "a", " ", "e", "x", "c", "e", "e", "d", "e", "d", ",", " ", "p", "l", "e", "a", "s", "e", " ", "r", "e", "t", "r", "y", " ", "i", "n", " ", "1", ".", "5", "s", ".">>
M_retryDelay == <<"4", "2", "9", " ", "{", "\"", "r", "e", "t", "r", "y", "D", "e", "l", "a", "y", "\"", ":", "\"", "3", "s", "\"", "}">>
M_port == <<"c", "o", "n", "n", "e", "c", "t", " ", "E", "C", "O", "N", "N", "R", "E", "F", "U", "S", "E", "D", " ", "1", "0", ".", "0", ".", "0", ".", "1", ":", "4", "2", "9", "0">>
M_500 == <<"[", "5", "0", "0", " ", "I", "n", "t", "e", "r", "n", "a", "l", " ", "S", "e", "r", "v", "e", "r", " ", "E", "r", "r", "o", "r", "]">>
M_Quota == <<"Q", "u", "o", "t", "a", " ", "p", "r", "o", "j", "e", "c", "t", " ", "n", "o", "t", " ", "s", "e", "t">>
M_fetch == <<"f", "e", "t", "c", "h", " ", "f", "a", "i", "l", "e", "d">>

\* what generateContent or response.text() may throw
Errors ==
    { [message |-> m] : m \in {M_429, M_TooMany, M_Exhausted, M_quota, M_quota_fraction,
                               M_retryDelay, M_port, M_500, M_Quota, M_fetch, <<>>} }

\* what response.text() may return
Texts == {T_empty_object, T_claims_files, <<>>}

Returned(text) == [kind |-> "returned", text |-> text, error |-> [message |-> <<>>]]

Threw(error) == [kind |-> "threw", text |-> <<>>, error |-> error]

L_Failed == <<"G", "e", "m", "i", "n", "i", " ", "A", "P", "I", " ", "F", "a", "i", "l", "e", "d", " ", "a", "f", "t", "e", "r", " ", "6", " ", "a", "t", "t", "e", "m", "p", "t", "s", ".", " ", "L", "a", "s", "t", " ", "e", "r", "r", "o", "r", ":", " ">>
L_MaxRetries == <<"M", "a", "x", " ", "r", "e", "t", "r", "i", "e", "s", " ", "e", "x", "c", "e", "e", "d", "e", "d">>

RetryInit ==
    /\ errMsg = <<>>
    /\ attempt = 0
    /\ calls = 0
    /\ delays = <<>>
    /\ rpc = "loop"
    /\ outcome = <<>>
    /\ AnalyzeIdle /\ ExportIdle /\ RewriteIdle /\ UploadIdle

\* generateContent resolves and the text of the response is returned
ModelReturns(text) ==
    /\ calls' = calls + 1
    /\ rpc' = "returned"
    /\ outcome' = Returned(text)
    /\ UNCHANGED <<errMsg, attempt, delays>>

\* generateContent rejects (or text() throws) with error: the catch block
ModelRejects(error) ==
    /\ calls' = calls + 1
    /\ errMsg' = errMsgOf(error)
    /\ IF isRateLimit(errMsgOf(error))
       THEN /\ attempt' = attempt + 1
            /\ IF attempt + 1 >= maxRetries
               THEN /\ rpc' = "threw"
                    /\ outcome' = Threw([message |-> L_Failed \o errMsgOf(error)])
                    /\ UNCHANGED delays
               ELSE /\ delays' = Append(delays, delay(errMsgOf(error), attempt + 1))
                    /\ UNCHANGED <<rpc, outcome>>
       ELSE /\ rpc' = "threw"
            /\ outcome' = Threw(error)
            /\ UNCHANGED <<attempt, delays>>

\* one pass of the while loop, or the throw that follows the loop
Iterate ==
    /\ rpc = "loop"
    /\ IF attempt < maxRetries
       THEN \/ \E text \in Texts : ModelReturns(text)
            \/ \E error \in Errors : ModelRejects(error)
       ELSE /\ rpc' = "threw"
            /\ outcome' = Threw([message |-> L_MaxRetries])
            /\ UNCHANGED <<errMsg, attempt, calls, delays>>
    /\ UNCHANGED <<analyzeVars, exportVars, rewriteVars, uploadVars>>

RetryNext == Iterate

\* every awaited promise settles: generateContent resolves or rejects and the
\* timer fires, so a call that can take a step takes one
SpecRetry == RetryInit /\ [][RetryNext]_vars /\ WF_vars(RetryNext)

----------------------------------------------------------------------------
Ended == rpc \in {"returned", "threw"}

HasMarker(msg) ==
    \E w \in {<<"4", "2", "9">>, <<"T", "o", "o", " ", "M", "a", "n", "y", " ", "R", "e", "q", "u", "e", "s", "t", "s">>, <<"R", "e", "s", "o", "u", "r", "c", "e", " ", "e", "x", "h", "a", "u", "s", "t", "e", "d">>, <<"q", "u", "o", "t", "a">>} :
        \E i \in 1..Len(msg) : i + Len(w) - 1 <= Len(msg) /\ \A k \in 1..Len(w) : msg[i + k - 1] = w[k]

C19_State ==
    /\ calls <= 6
    /\ Ended => outcome.kind \in {"returned", "threw"}
    /\ ~Ended => rpc = "loop" /\ calls = attempt /\ calls < 6

\* a model call is made only by a call that has not ended; the call goes on
\* to another model call only after an error with a rate-limit marker; an
\* error without one ends the call by throwing that very error
C19_Step ==
    /\ calls' # calls => ~Ended /\ calls' = calls + 1
    /\ (calls' # calls /\ ~Ended') => HasMarker(errMsg')
    /\ (calls' # calls /\ Ended' /\ outcome'.kind = "threw" /\ ~HasMarker(errMsg'))
           => /\ errMsgOf(outcome'.error) = errMsg'
              /\ outcome'.error \in Errors
    /\ Ended => UNCHANGED retryVars

\* C19: analyzeRentalDocuments calls the model again only after an error
\* whose message holds 429, Too Many Requests, Resource exhausted or quota,
\* calls the model at most 6 times, always ends by returning the reply text
\* or throwing, and rethrows any other error at once with no further call.
C19_RetryOnlyOnRateLimit == []C19_State /\ [][C19_Step]_vars /\ <>Ended

C19_Witness ==
    /\ rpc = "threw"
    /\ calls = 6
    /\ Len(delays) = 5
    /\ IsPrefixOf(L_Failed, outcome.error.message)

----------------------------------------------------------------------------
(* The FileUpload component.                                               *)
(* A file is the number it was dropped or chosen as.  The component is     *)
(* rendered anew between two events, so that a handler reads the files     *)
(* state of the latest render; a handleDrop call keeps the files of the    *)
(* render in which it began while it awaits the traversal of its items.    *)

MaxPicked == 4

UploadInit ==
    /\ shownFiles = <<>>
    /\ parentFiles = <<>>
    /\ drops = {}
    /\ picked = 0
    /\ AnalyzeIdle /\ ExportIdle /\ RewriteIdle /\ RetryIdle

\* handleDrop up to await Promise.all(traversePromises): the call holds the
\* files of its render and the files it is to find
handleDropBegins ==
    /\ picked < MaxPicked
    /\ picked' = picked + 1
    /\ drops' = drops \cup { [files |-> shownFiles, newFiles |-> <<picked + 1>>] }
    /\ UNCHANGED <<shownFiles, parentFiles>>
    /\ UNCHANGED <<analyzeVars, exportVars, rewriteVars, retryVars>>

\* handleDrop after the await: setFiles((prev) => [...prev, ...newFiles]) and
\* onFilesSelected([...files, ...newFiles])
handleDropResumes ==
    \E drop \in drops :
        /\ shownFiles' = shownFiles \o drop.newFiles
        /\ parentFiles' = drop.files \o drop.newFiles
        /\ drops' = drops \ {drop}
        /\ UNCHANGED picked
        /\ UNCHANGED <<analyzeVars, exportVars, rewriteVars, retryVars>>

\* handleChange: files chosen in the file picker
handleChange ==
    /\ picked < MaxPicked
    /\ picked' = picked + 1
    /\ shownFiles' = shownFiles \o <<picked + 1>>
    /\ parentFiles' = shownFiles \o <<picked + 1>>
    /\ UNCHANGED drops
    /\ UNCHANGED <<analyzeVars, exportVars, rewriteVars, retryVars>>

\* removeFile(index): newFiles.splice(index, 1)
removeFile ==
    \E index \in 0..(Len(shownFiles) - 1) :
        LET newFiles == SubSeq(shownFiles, 1, index)
                        \o SubSeq(shownFiles, index + 2, Len(shownFiles))
        IN  /\ shownFiles' = newFiles
            /\ parentFiles' = newFiles
            /\ UNCHANGED <<drops, picked>>
            /\ UNCHANGED <<analyzeVars, exportVars, rewriteVars, retryVars>>

UploadNext == handleDropBegins \/ handleDropResumes \/ handleChange \/ removeFile

SpecUpload == UploadInit /\ [][UploadNext]_vars

----------------------------------------------------------------------------
\* C30: after any interleaving of drops, file-picker selections and
\* removals, the list last passed to onFilesSelected is the component's own
\* files state.
C30_ParentHasShownFiles == parentFiles = shownFiles

----------------------------------------------------------------------------
\* the blob the loop has just passed (bi counts the blobs passed, plus one)
LastBlob == blobs[bi - 1]

\* the parts the last blob added to geminiParts, its section marker included
LastParts ==
    LET r == processFile(LastBlob.file, LastBlob.filename, NoEntries, <<>>, <<bi - 1>>).parts
        n == Len(SectionMarker(LastBlob.section)) + Len(r)
    IN  SubSeq(geminiParts, Len(geminiParts) - n + 1, Len(geminiParts))

\* the file is handed to a strategy: not ignored by name, not over the size limit
Accepted(file, filename) == ~shouldSkipFile(filename) /\ file.size <= MAX_FILE_SIZE

AttachmentLabel(name, currentPath) ==
    [mimeType |-> "text/plain", kind |-> "ATTACHMENT",
     path |-> name \o <<" found in ">> \o currentPath]

\* what is to follow the header-and-body part of a container: per attachment
\* its label, then the parts of the recursive call for it
RECURSIVE LabelledAttachments(_, _, _)
LabelledAttachments(file, j, currentPath) ==
    IF j > Len(file.atts) THEN <<>>
    ELSE LET attach == file.atts[j]
             name == IF attach.named /\ attach.name # <<>> THEN attach.name
                     ELSE <<"a","t","t","a","c","h","m","e","n","t">>
         IN  <<AttachmentLabel(name, currentPath)>>
             \o (IF attach.content
                 THEN processFile(attach, name, NoEntries,
                                  currentPath \o <<" ", ">", " ">> \o name, <<0>>).parts
                 ELSE <<>>)
             \o LabelledAttachments(file, j + 1, currentPath)

\* the last blob is a .msg container that was read: downloaded, accepted,
\* its bytes and each of its attachments readable
ContainerProcessed ==
    /\ pc = "loop" /\ bi > 1
    /\ LastBlob.fetch = "ok"
    /\ IsMsgName(LastBlob.filename)
    /\ Accepted(LastBlob.file, LastBlob.filename)
    /\ ~LastBlob.file.bad
    /\ \A j \in 1..Len(LastBlob.file.atts) : ~LastBlob.file.atts[j].throws

\* C21: a processed .msg container emits, in order, one text part of header
\* and body, then per attachment in attachment order a label part naming the
\* attachment and the container's path, followed at once by the parts of the
\* recursive call for that attachment.
C21_ContainerPartsLabelled ==
    ContainerProcessed =>
        LastParts = SectionMarker(LastBlob.section)
                    \o << [mimeType |-> "text/plain", kind |-> "EMAIL", path |-> LastBlob.filename] >>
                    \o LabelledAttachments(LastBlob.file, 1, LastBlob.filename)

----------------------------------------------------------------------------
\* the fixed extension table, for the types passed through as bytes
PassthroughMime(ext) ==
    CASE ext = <<"p","d","f">> -> "application/pdf"
      [] ext = <<"p","n","g">> -> "image/png"
      [] ext \in {<<"j","p","g">>, <<"j","p","e","g">>} -> "image/jpeg"
      [] OTHER -> ""

\* the last blob is a pdf, jpg, jpeg or png file that was processed
BinaryProcessed ==
    /\ pc = "loop" /\ bi > 1
    /\ LastBlob.fetch = "ok"
    /\ Accepted(LastBlob.file, LastBlob.filename)
    /\ PassthroughMime(Ext(LastBlob.filename)) # ""

\* C22: a processed pdf, jpg, jpeg or png file emits exactly two parts: the
\* file's own bytes under the MIME type of the extension table, then a text
\* part labelling it with its current path.
C22_BinaryThenLabel ==
    BinaryProcessed =>
        LastParts = SectionMarker(LastBlob.section)
                    \o << [mimeType |-> PassthroughMime(Ext(LastBlob.filename)),
                           kind |-> "BYTES", path |-> LastBlob.filename],
                          [mimeType |-> "text/plain", kind |-> "BINARY FILE",
                           path |-> LastBlob.filename] >>

----------------------------------------------------------------------------
\* the caption of the marker of a section
MarkerCaption(section) ==
    CASE section = "files_prior"   -> "SECTION: PRIOR YEAR FILES"
      [] section = "files_t776"    -> "SECTION: PRIOR YEAR T776"
      [] section = "files_current" -> "SECTION: CURRENT YEAR FILES"
      [] OTHER                     -> ""

\* what blob k adds to the sequence sent to the model
Contribution(k) ==
    IF blobs[k].fetch # "ok" THEN <<>>
    ELSE (IF MarkerCaption(blobs[k].section) # ""
          THEN << [mimeType |-> "text/plain", kind |-> MarkerCaption(blobs[k].section),
                   path |-> <<>>] >>
          ELSE <<>>)
         \o processFile(blobs[k].file, blobs[k].filename, NoEntries, <<>>, <<k>>).parts

RECURSIVE Contributions(_)
Contributions(k) == IF k = 0 THEN <<>> ELSE Contributions(k - 1) \o Contribution(k)

C23_State ==
    /\ geminiParts = Contributions(bi - 1)
    /\ \A k \in 1..Len(visited) : blobs[visited[k][1]].fetch = "ok"
    /\ pc # "loop" => bi = Len(blobs) + 1

\* a blob whose download fails leaves the parts and the manifest as they
\* were, and the loop goes on to the next blob
C23_Step ==
    (bi' # bi) =>
        /\ bi' = bi + 1 /\ pc' = "loop"
        /\ blobs[bi].fetch # "ok" => UNCHANGED <<geminiParts, manifest, visited>>

\* C23: the parts sent to the model are in blob order; a downloaded blob of
\* a known section adds one section marker and then its own parts, even when
\* it has none; a blob whose download fails adds no marker, no part and no
\* manifest entry, and the blobs after it are still processed.
C23_PartsInBlobOrder == []C23_State /\ [][C23_Step]_vars

C23_Witness ==
    /\ bi = 3
    /\ blobs[1].fetch # "ok"
    /\ blobs[2].fetch = "ok"
    /\ Len(geminiParts) = 2
    /\ manifest = << blobs[2].filename >>

----------------------------------------------------------------------------
\* C27: when the handler has returned, on whichever path (success, blank
\* reply, unparseable reply, thrown error), a delete was attempted for every
\* blob URL of the request.
C27_EveryBlobDeleted ==
    pc = "done" => \A k \in 1..Len(blobs) : \E d \in 1..Len(deleted) : deleted[d] = k

----------------------------------------------------------------------------
\* row r (counted from 0) of the sheet of property p is a category row of
\* the income block, or of the expense block
IsIncomeRow(p, r) == FirstIncomeRow(p) <= r /\ r < TotalIncomeRowOf(p)

IsExpenseRow(p, r) == FirstExpenseRow(p) <= r /\ r < TotalExpenseRowOf(p)

\* the category string the row shows in column A
CategoryOf(p, r) == workbook[p].rows[r + 1][1].s

\* the source file of the current-year entry of category cat, if it has one
SourceOf(obj, cat) ==
    IF \E i \in 1..Len(obj) : obj[i].k = cat
    THEN obj[CHOOSE i \in 1..Len(obj) : obj[i].k = cat].v.source_file
    ELSE <<>>

RowSource(p, r) ==
    IF IsIncomeRow(p, r) THEN SourceOf(result.properties[p].income, CategoryOf(p, r))
    ELSE IF IsExpenseRow(p, r) THEN SourceOf(result.properties[p].expenses, CategoryOf(p, r))
    ELSE <<>>

SheetRows(p) == 0..(Len(workbook[p].rows) - 1)

\* C24: every income or expense category row whose current-year entry names
\* a source file has a hyperlink to Source_Documents/ followed by the
\* rewritten source file, whatever the category string; every other row has
\* no hyperlink.
C24_CategoryRowsLinked ==
    \A p \in PropertySheets :
        \A r \in SheetRows(p) :
            workbook[p].worksheet[r][4].l =
                IF RowSource(p, r) # <<>>
                THEN L_Source_Documents
                     \o ReplaceAll(ReplaceAll(RowSource(p, r), <<" ", ">", " ">>,
                                              <<"_","a","t","t","a","c","h","m","e","n","t","s","/">>),
                                   <<"\\">>, <<"/">>)
                ELSE <<>>

----------------------------------------------------------------------------
\* C25: every category row of the income and expense blocks, whatever its
\* category string, has in column D the formula C<r>-B<r> of its own row; no
\* header, blank, notes or files row has a formula there (the total and net
\* rows carry the variance formulas of their own steps).
C25_CategoryRowsHaveVariance ==
    \A p \in PropertySheets :
        \A r \in SheetRows(p) :
            IF IsIncomeRow(p, r) \/ IsExpenseRow(p, r)
            THEN workbook[p].worksheet[r][3].f = MinusFormula(RefTo("C", r), RefTo("B", r))
            ELSE r \notin {TotalIncomeRowOf(p), TotalExpenseRowOf(p), NetIncomeRowOf(p)}
                 => workbook[p].worksheet[r][3].f = NoFormula

----------------------------------------------------------------------------
\* string a comes before string b in ascending order of code units
RECURSIVE Before(_, _)
Before(a, b) ==
    IF b = <<>> THEN FALSE
    ELSE IF a = <<>> THEN TRUE
    ELSE IF a[1] = b[1] THEN Before(Tail(a), Tail(b))
    ELSE charCodeAt(a[1]) < charCodeAt(b[1])

\* the amount the mapping holds for cat: a number in the prior-year maps, an
\* entry with an amount in the current-year maps; 0 for a key it lacks
PriorAmount(obj, cat) ==
    IF cat \in KeySet(obj) THEN obj[CHOOSE i \in 1..Len(obj) : obj[i].k = cat].v ELSE 0

CurrentAmount(obj, cat) ==
    IF cat \in KeySet(obj) THEN obj[CHOOSE i \in 1..Len(obj) : obj[i].k = cat].v.amount ELSE 0

\* rows first..last (counted from 0) of sheet p show the keys of the two
\* mappings, once each and ascending, with their amounts
BlockShows(p, first, last, current, prior) ==
    LET rows == workbook[p].rows IN
    /\ { rows[r + 1][1].s : r \in first..last } = KeySet(current) \cup KeySet(prior)
    /\ last - first + 1 = Cardinality(KeySet(current) \cup KeySet(prior))
    /\ \A r \in first..(last - 1) : Before(rows[r + 1][1].s, rows[r + 2][1].s)
    /\ \A r \in first..last :
          /\ rows[r + 1][2] = [t |-> "n", s |-> <<>>, n |-> PriorAmount(prior, rows[r + 1][1].s)]
          /\ rows[r + 1][3] = [t |-> "n", s |-> <<>>, n |-> CurrentAmount(current, rows[r + 1][1].s)]

====
